---------------------------- MODULE Spec2Model ----------------------------
(***************************************************************************)
(* Decodeat recommendation engine: the result cache, the recommendation    *)
(* orchestrator (service + route) and the product vector store.            *)
(*                                                                         *)
(* Numbers that are floats in the source are kept in thousandths           *)
(* (0.5 -> 500), so round(x, 3) is the identity on them.                   *)
(***************************************************************************)
EXTENDS Integers, Sequences, FiniteSets, TLC

VARIABLES
    cache,        \* RecommendationCache.cache: entries in dict insertion order
    max_size,     \* RecommendationCache.max_size
    ttl_seconds,  \* RecommendationCache.ttl_seconds
    now,          \* time.time(), whole seconds
    cop,          \* the last direct cache call and what it returned
    last,         \* the last request handled by a route, and its response
    thr,          \* threads inside RecommendationCache.set
    store,        \* the product_vectors collection, in store order
    wr,           \* the writer inside store_product_with_id / update_product_vector
    rd            \* what the last get_product_by_id observed

vars == <<cache, max_size, ttl_seconds, now, cop, last, thr, store, wr, rd>>

------------------------------------------------------------------------------
(* Bounds of the model *)

MaxSize == 2
MaxTtl == 2
MaxTime == 2
\* capacity given to the process-wide cache that the routes share
SharedSize == 1

ProductIds == {1, 2}
Limits == {1, 2}

\* Python's None / a value, for Optional results
None == <<>>
Some(v) == <<v>>

------------------------------------------------------------------------------
(* RecommendationCache *)

\* sorted(kwargs.items()) over the parameter names the callers use
KeyOrder == <<"limit", "product_id", "type", "user_id">>

RECURSIVE JoinParts(_, _)
JoinParts(kw, i) ==
    IF i > Len(KeyOrder) THEN <<>>
    ELSE IF KeyOrder[i] \in DOMAIN kw
         THEN <<KeyOrder[i] \o ":" \o
                 (IF KeyOrder[i] = "type" THEN kw[KeyOrder[i]]
                  ELSE ToString(kw[KeyOrder[i]]))>> \o JoinParts(kw, i + 1)
         ELSE JoinParts(kw, i + 1)

RECURSIVE JoinBar(_)
JoinBar(parts) ==
    IF parts = <<>> THEN ""
    ELSE IF Len(parts) = 1 THEN parts[1]
    ELSE parts[1] \o "|" \o JoinBar(Tail(parts))

\* a key generator that forgets the limit parameter
GenerateKeyNoLimit(kw) ==
    JoinBar(JoinParts([n \in DOMAIN kw \ {"limit"} |-> kw[n]], 1))

ProductKwargs(p, l) == [type |-> "product_based", product_id |-> p, limit |-> l]

\* the keys of the signatures the service uses, computed once
KeyTable ==
    [kw \in {ProductKwargs(p, l) : p \in ProductIds, l \in Limits} |->
        JoinBar(JoinParts(kw, 1))]

_generate_key(kw) ==
    IF kw \in DOMAIN KeyTable THEN KeyTable[kw] ELSE JoinBar(JoinParts(kw, 1))

KeyIndex(c, key) ==
    IF \E i \in DOMAIN c : c[i].key = key
    THEN CHOOSE i \in DOMAIN c : c[i].key = key
    ELSE 0

RemoveAt(c, i) == SubSeq(c, 1, i - 1) \o SubSeq(c, i + 1, Len(c))

\* an expiry test that is off by one
FreshInclusive(ts, t) == t - ts <= ttl_seconds

Fresh(ts, t) == t - ts < ttl_seconds

CacheGet(c, kw, t) ==
    LET key == _generate_key(kw)
        i == KeyIndex(c, key)
    IN  IF i = 0 THEN [cache |-> c, ret |-> None]
        ELSE IF Fresh(c[i].ts, t)
             THEN [cache |-> c, ret |-> Some(c[i].value)]
             ELSE [cache |-> RemoveAt(c, i), ret |-> None]

\* an eviction that drops the newest entry
NewestIndex(c) ==
    CHOOSE i \in DOMAIN c :
        /\ \A j \in DOMAIN c : c[j].ts <= c[i].ts
        /\ \A j \in DOMAIN c : (c[j].ts = c[i].ts) => i <= j

\* min(self.cache.keys(), key=lambda k: self.cache[k][1]): the first key, in
\* dict order, among those with the smallest timestamp
OldestIndex(c) ==
    CHOOSE i \in DOMAIN c :
        /\ \A j \in DOMAIN c : c[i].ts <= c[j].ts
        /\ \A j \in DOMAIN c : (c[j].ts = c[i].ts) => i <= j

\* self.cache[key] = (result, time.time()): an existing key keeps its place
CachePut(c, key, v, t, kw) ==
    LET e == [key |-> key, value |-> v, ts |-> t, kw |-> kw]
        i == KeyIndex(c, key)
    IN  IF i = 0 THEN Append(c, e) ELSE [c EXCEPT ![i] = e]

\* a set that never evicts
CacheSetNoEvict(c, v, kw, t) ==
    [cache |-> CachePut(c, _generate_key(kw), v, t, kw), raised |-> FALSE]

CacheSet(c, v, kw, t) ==
    LET key == _generate_key(kw)
    IN  IF Len(c) >= max_size
        THEN IF c = <<>>
             THEN [cache |-> c, raised |-> TRUE]   \* min() of an empty sequence
             ELSE [cache |-> CachePut(RemoveAt(c, OldestIndex(c)), key, v, t, kw),
                   raised |-> FALSE]
        ELSE [cache |-> CachePut(c, key, v, t, kw), raised |-> FALSE]

CacheClear(c) == <<>>

------------------------------------------------------------------------------
(* Vector store: what one call to the collection can answer *)

Max(a, b) == IF a >= b THEN a ELSE b
Min(a, b) == IF a <= b THEN a ELSE b

\* a metadata record that carries no 'product_id'
NoKey == 0
\* the answer of a call that is never made
NoCall == "not called"

Hit(p, d) == [product_id |-> p, distance |-> d]

\* collection.get(ids=[product_id]) for the reference vector
RefOutcomes == {"found", "none", "raise"}

\* collection.query(n_results=n): it raises, or ranks at most n neighbours;
\* a distance may be negative (inner-product space) and a metadata record may
\* lack its product_id
QueryOutcomes(p, n) ==
    {[raises |-> TRUE, hits |-> <<>>]} \cup
    {[raises |-> FALSE, hits |-> h] :
        h \in {h \in {<<Hit(p, 0), Hit(3, 150)>>,
                      <<Hit(3, 0 - 500)>>,
                      <<Hit(NoKey, 150)>>,
                      <<>>} : Len(h) <= n}}
NoQuery == [raises |-> FALSE, hits |-> <<>>]

\* collection.count() then collection.get(limit=min(limit, count)): each may
\* raise; the store lists its products in its own order
StoreOrder == <<[product_id |-> 3], [product_id |-> 1]>>
Sample(countRaises, count, getRaises, metas) ==
    [countRaises |-> countRaises, count |-> count,
     getRaises |-> getRaises, metas |-> metas]
NoSample == Sample(FALSE, 0, FALSE, <<>>)
SampleOutcomes(limit) ==
    {Sample(TRUE, 0, FALSE, <<>>), Sample(FALSE, 0, FALSE, <<>>),
     Sample(FALSE, Len(StoreOrder), FALSE,
            SubSeq(StoreOrder, 1, Min(limit, Len(StoreOrder))))}

------------------------------------------------------------------------------
(* VectorService *)

_generate_recommendation_reason(similarity_score) ==
    IF similarity_score > 900 THEN "very similar nutrition and ingredients"
    ELSE IF similarity_score > 800 THEN "similar nutrition"
    ELSE IF similarity_score > 700 THEN "similar ingredients"
    ELSE "related product"

_generate_user_recommendation_reason(similarity_score) ==
    IF similarity_score > 900 THEN "very similar to preferred products"
    ELSE IF similarity_score > 800 THEN "matches user taste"
    ELSE IF similarity_score > 700 THEN "user may be interested"
    ELSE IF similarity_score > 600 THEN "similar to user preference"
    ELSE "related to user interests"

\* similarity_score = max(0, 1 - distance)
SimilarityScore(distance) == Max(0, 1000 - distance)

Rec(p, score, reason) ==
    [product_id |-> p, similarity_score |-> score, recommendation_reason |-> reason]

RECURSIVE MapHits(_, _)
MapHits(hits, product) ==
    IF hits = <<>> THEN <<>>
    ELSE LET h == Head(hits)
             s == SimilarityScore(h.distance)
         IN  <<Rec(h.product_id, s,
                   IF product THEN _generate_recommendation_reason(s)
                   ELSE _generate_user_recommendation_reason(s))>>
             \o MapHits(Tail(hits), product)

Take(s, n) == SubSeq(s, 1, Min(n, Len(s)))

HasNoKey(hits) == \E i \in DOMAIN hits : hits[i].product_id = NoKey

\* find_similar_products: ret is the list returned, excs the store calls that
\* raised on the way (all of them caught inside)
find_similar_products(product_id, limit, avail, ref, q) ==
    IF ~avail THEN [ret |-> <<>>, excs |-> {}]
    ELSE IF ref = "raise" THEN [ret |-> <<>>, excs |-> {"reference_get"}]
    ELSE IF ref = "none" THEN [ret |-> <<>>, excs |-> {}]
    ELSE IF q.raises THEN [ret |-> <<>>, excs |-> {"query"}]
    ELSE IF HasNoKey(q.hits) THEN [ret |-> <<>>, excs |-> {"metadata"}]
    ELSE [ret |-> Take(MapHits(SelectSeq(q.hits,
                                         LAMBDA h : h.product_id # product_id),
                               TRUE), limit),
          excs |-> {}]

\* search_by_user_preferences, given that a preference vector exists
\* (queried lists the n_results of the queries it sent to the collection)
search_by_user_preferences(limit, avail, q) ==
    IF ~avail THEN [ret |-> <<>>, excs |-> {}, queried |-> <<>>]
    ELSE IF q.raises
    THEN [ret |-> <<>>, excs |-> {"query"}, queried |-> <<limit>>]
    ELSE IF HasNoKey(q.hits)
    THEN [ret |-> <<>>, excs |-> {"metadata"}, queried |-> <<limit>>]
    ELSE [ret |-> MapHits(q.hits, FALSE), excs |-> {}, queried |-> <<limit>>]

\* get_collection_info()['count']: 0 when unavailable or when count() raises
CollectionCount(avail, s) ==
    IF ~avail \/ s.countRaises THEN 0 ELSE s.count

------------------------------------------------------------------------------
(* RecommendationService *)

RECURSIVE NeutralRecs(_)
NeutralRecs(metas) ==
    IF metas = <<>> THEN <<>>
    ELSE <<Rec(Head(metas).product_id, 500, "popular product")>>
         \o NeutralRecs(Tail(metas))

\* get_fallback_recommendations: up to limit stored products at the neutral
\* score 0.5; empty when the store is unavailable, empty, or a call raises
get_fallback_recommendations(limit, avail, s) ==
    IF avail /\ CollectionCount(avail, s) > 0
           /\ ~s.getRaises /\ ~HasNoKey(s.metas)
    THEN NeutralRecs(s.metas)
    ELSE <<>>

\* a popularity score that goes on falling below 0.3
PopularityScoreNoFloor(i) == 800 - i * 50

\* popularity_score = max(0.3, 0.8 - i * 0.05), i counted from 0
PopularityScore(i) == Max(300, 800 - i * 50)

RECURSIVE PopularRecs(_, _)
PopularRecs(metas, i) ==
    IF metas = <<>> THEN <<>>
    ELSE <<[product_id |-> Head(metas).product_id,
            similarity_score |-> PopularityScore(i),
            recommendation_reason |-> "popular product",
            recommendation_type |-> "popularity"]>>
         \o PopularRecs(Tail(metas), i + 1)

get_popularity_based_fallback(limit, avail, s) ==
    IF ~avail THEN <<>>
    ELSE IF CollectionCount(avail, s) = 0 THEN <<>>
    ELSE IF s.getRaises \/ HasNoKey(s.metas) THEN <<>>
    ELSE PopularRecs(s.metas, 0)

RECURSIVE SumScores(_)
SumScores(recs) ==
    IF recs = <<>> THEN 0 ELSE Head(recs).similarity_score + SumScores(Tail(recs))

\* a grading that ignores the behaviour analysis
BehaviorQualityFair(analysis) == "fair"

\* behavior_quality of evaluate_recommendation_quality
BehaviorQuality(analysis) ==
    IF analysis = None THEN "fair"
    ELSE LET a == analysis[1]
         IN  IF a.engagement_level \in {"very_high", "high"}
                  /\ a.total_interactions >= 10 THEN "excellent"
             ELSE IF a.engagement_level \in {"high", "medium"}
                  /\ a.total_interactions >= 5 THEN "good"
             ELSE IF a.total_interactions >= 3 THEN "fair"
             ELSE "poor"

\* avg_similarity >= x, with avg_similarity = sum(scores) / rec_count in
\* floating point: the rounding of the running sum decides the comparison
\* only when the exact mean equals x (sum([0.8] * 10) / 10 is
\* 0.7999999999999999, sum([0.7] * 10) / 10 is 0.7000000000000001); below
\* says that the computed mean fell under the exact one
AvgAtLeast(total, n, x, below) ==
    total > x * n \/ (total = x * n /\ ~below)

GradeQuality(recs, analysis, below) ==
    IF recs = <<>> THEN "poor"
    ELSE LET n == Len(recs)
             total == SumScores(recs)
             bq == BehaviorQuality(analysis)
         IN  IF AvgAtLeast(total, n, 800, below) /\ n >= 10
                    /\ bq \in {"excellent", "good"}
             THEN "excellent"
             ELSE IF AvgAtLeast(total, n, 700, below) /\ n >= 5
                    /\ bq \in {"good", "fair"}
             THEN "good"
             ELSE IF AvgAtLeast(total, n, 600, below) /\ n >= 3 THEN "fair"
             ELSE "poor"

\* the grade when the scores add up without rounding error
evaluate_recommendation_quality(recs, analysis) ==
    GradeQuality(recs, analysis, FALSE)

\* the places of the primary stage where a collaborator may raise into the
\* service itself
Injections == {"none", "cache_get", "probe", "search"}

\* get_product_based_recommendations up to the point where it either has its
\* result or turns to get_fallback_recommendations
ProductPrimary(c, t, product_id, limit, avail, inj, ref, q) ==
    LET kw == ProductKwargs(product_id, limit)
        g == CacheGet(c, kw, t)
        none == [cache |-> c, ret |-> <<>>, hit |-> FALSE, searched |-> FALSE,
                 excs |-> {}, fallback |-> TRUE]
    IN  IF inj = "cache_get" THEN [none EXCEPT !.excs = {"cache_get"}]
        ELSE IF g.ret # None /\ g.ret[1] # <<>>
        THEN [none EXCEPT !.cache = g.cache, !.ret = g.ret[1], !.hit = TRUE,
                          !.fallback = FALSE]
        ELSE IF inj = "probe"
        THEN [none EXCEPT !.cache = g.cache, !.excs = {"probe"}]
        ELSE IF ~avail THEN [none EXCEPT !.cache = g.cache]
        ELSE IF inj = "search"
        THEN [none EXCEPT !.cache = g.cache, !.searched = TRUE,
                          !.excs = {"search"}]
        ELSE LET r == find_similar_products(product_id, limit, avail, ref, q)
                 w == CacheSet(g.cache, r.ret, kw, t)
             IN  IF r.ret = <<>>
                 THEN [none EXCEPT !.cache = g.cache, !.searched = TRUE,
                                   !.excs = r.excs]
                 ELSE IF w.raised
                 THEN [none EXCEPT !.cache = w.cache, !.searched = TRUE,
                                   !.excs = {"cache_set"}]
                 ELSE [none EXCEPT !.cache = w.cache, !.ret = r.ret,
                                   !.searched = TRUE, !.fallback = FALSE]

\* a service that answers a failed primary stage with the empty list
ProductServiceSwallow(p, limit, avail, s) ==
    [cache |-> p.cache, hit |-> p.hit, searched |-> p.searched,
     excs |-> p.excs, primary |-> p.ret, raised |-> FALSE,
     fbCalls |-> <<>>, fbRet |-> <<>>, popCalls |-> <<>>, ret |-> p.ret]

\* a service that also stores the list of its fallback in the cache
ProductServiceCaching(p, limit, avail, s) ==
    LET fb == get_fallback_recommendations(limit, avail, s)
        kw == ProductKwargs(1, limit)
    IN  [cache |-> IF p.fallback /\ fb # <<>>
                   THEN CachePut(p.cache, _generate_key(kw), fb, now, kw)
                   ELSE p.cache,
         hit |-> p.hit, searched |-> p.searched,
         excs |-> p.excs, primary |-> p.ret, raised |-> FALSE,
         fbCalls |-> IF p.fallback THEN <<limit>> ELSE <<>>,
         fbRet |-> IF p.fallback THEN fb ELSE <<>>,
         popCalls |-> <<>>,
         ret |-> IF p.fallback THEN fb ELSE p.ret]

\* the rest of get_product_based_recommendations, p being what ProductPrimary
\* came to: fbCalls lists the limits passed to get_fallback_recommendations,
\* fbRet what it returned, popCalls the limits passed to
\* get_popularity_based_fallback (the method has no such call), ret what the
\* service returns
ProductService(p, limit, avail, s) ==
    LET fb == get_fallback_recommendations(limit, avail, s)
    IN  [cache |-> p.cache, hit |-> p.hit, searched |-> p.searched,
         excs |-> p.excs, primary |-> p.ret, raised |-> FALSE,
         fbCalls |-> IF p.fallback THEN <<limit>> ELSE <<>>,
         fbRet |-> IF p.fallback THEN fb ELSE <<>>,
         popCalls |-> <<>>,
         ret |-> IF p.fallback THEN fb ELSE p.ret]

\* str.upper() on the spellings of behaviour types used by the model
Upper(s) ==
    CASE s = "like" -> "LIKE"
      [] s = "Register" -> "REGISTER"
      [] OTHER -> s

\* weights that treat every behaviour alike
BehaviorWeightFlat(behavior_type) == 1

\* a table that gives an unrecognised type no weight
BehaviorWeightKnown(behavior_type) ==
    CASE behavior_type = "REGISTER" -> 5
      [] behavior_type = "LIKE" -> 3
      [] behavior_type = "SEARCH" -> 2
      [] behavior_type = "VIEW" -> 1
      [] OTHER -> 0

\* BEHAVIOR_WEIGHTS.get(behavior_type, 1), behavior_type in upper case
BehaviorWeight(behavior_type) ==
    CASE behavior_type = "REGISTER" -> 5
      [] behavior_type = "LIKE" -> 3
      [] behavior_type = "SEARCH" -> 2
      [] behavior_type = "VIEW" -> 1
      [] OTHER -> 1

\* Binary floating point with FloatBits significant bits, on non-negative
\* values counted in halves of the smallest embedding step: RoundFloat(n, d)
\* is the representable value nearest to n/d, a tie going to the even one.
FloatBits == 5

RECURSIVE FloatStep(_, _, _)
FloatStep(n, d, s) ==
    IF 2 * s * (2 ^ (FloatBits - 1)) * d <= n THEN FloatStep(n, d, 2 * s) ELSE s

RoundFloat(n, d) ==
    LET s == FloatStep(n, d, 1)
        k == n \div (d * s)
        rem == n - k * d * s
    IN  IF 2 * rem > d * s \/ (2 * rem = d * s /\ k % 2 = 1)
        THEN (k + 1) * s ELSE k * s

Event(p, behavior_type) == [product_id |-> p, behavior_type |-> behavior_type]

\* the stored embedding of product p (one component is enough): products
\* 1 .. 2^(FloatBits-1) carry the values of one binade, each a float
Embedding(p) == 2 * (2 ^ (FloatBits - 1) + ((p - 1) % (2 ^ (FloatBits - 1))))

\* generate_user_preference_vector: gets[i] is what collection.get answers
\* for event i.  The loop over the first i events: sum is np.sum of the
\* weighted vectors so far, total the total weight, n their number.
RECURSIVE PreferenceSum(_, _, _)
PreferenceSum(behavior_data, gets, i) ==
    IF i = 0 THEN [sum |-> 0, total |-> 0, n |-> 0]
    ELSE LET acc == PreferenceSum(behavior_data, gets, i - 1)
             b == behavior_data[i]
             weight == BehaviorWeight(Upper(b.behavior_type))
         IN  IF b.product_id # 0 /\ gets[i] = "found"
             THEN [sum |-> RoundFloat(
                               acc.sum + RoundFloat(Embedding(b.product_id) * weight, 1),
                               1),
                   total |-> acc.total + weight, n |-> acc.n + 1]
             ELSE acc

\* the preference vector is np.sum(weighted_vectors) / total_weight
generate_user_preference_vector(behavior_data, avail, gets) ==
    IF behavior_data = <<>> \/ ~avail THEN None
    ELSE LET a == PreferenceSum(behavior_data, gets, Len(behavior_data))
         IN  IF a.n = 0 THEN None ELSE Some(RoundFloat(a.sum, a.total))

\* a user-based method that forgets to drop the products of the history
InteractedNone(behavior_data) == {}

InteractedProducts(behavior_data) ==
    {behavior_data[i].product_id : i \in DOMAIN behavior_data}

UserInjections == {"none", "search"}

\* get_user_based_recommendations up to the point where it either has its
\* result or turns to get_fallback_recommendations
UserPrimary(behavior_data, limit, avail, inj, gets, q) ==
    LET none == [ret |-> <<>>, searched |-> FALSE, excs |-> {}, fallback |-> TRUE,
                 queried |-> <<>>]
        pv == generate_user_preference_vector(behavior_data, avail, gets)
        lost == IF \E i \in DOMAIN gets : gets[i] = "raise"
                THEN {"embedding_get"} ELSE {}
    IN  IF ~avail THEN none
        ELSE IF pv = None THEN [none EXCEPT !.excs = lost]
        ELSE IF inj = "search"
        THEN [none EXCEPT !.searched = TRUE, !.excs = lost \cup {"search"}]
        ELSE LET r == search_by_user_preferences(limit * 2, avail, q)
                 kept == SelectSeq(r.ret, LAMBDA x :
                             x.product_id \notin InteractedProducts(behavior_data))
             IN  [ret |-> Take(kept, limit), searched |-> TRUE,
                  excs |-> lost \cup r.excs, fallback |-> FALSE,
                  queried |-> r.queried]

\* the rest of get_user_based_recommendations, p being what UserPrimary came to
get_user_based_recommendations(p, limit, avail, s) ==
    LET fb == get_fallback_recommendations(limit, avail, s)
    IN  [hit |-> FALSE, searched |-> p.searched,
         excs |-> p.excs, primary |-> p.ret, raised |-> FALSE,
         fbCalls |-> IF p.fallback THEN <<limit>> ELSE <<>>,
         fbRet |-> IF p.fallback THEN fb ELSE <<>>,
         ret |-> IF p.fallback THEN fb ELSE p.ret]

RECURSIVE TotalScore(_)
TotalScore(behavior_data) ==
    IF behavior_data = <<>> THEN 0
    ELSE BehaviorWeight(Upper(Head(behavior_data).behavior_type))
         + TotalScore(Tail(behavior_data))

BehaviorCount(behavior_data, behavior_type) ==
    Cardinality({i \in DOMAIN behavior_data :
                    Upper(behavior_data[i].behavior_type) = Upper(behavior_type)})

\* an analysis that names the type of the latest event
MostCommonLast(behavior_data) ==
    Upper(behavior_data[Len(behavior_data)].behavior_type)

\* behavior_counts: how often each type (in upper case) occurs
BehaviorDistribution(behavior_data) ==
    [t \in {Upper(behavior_data[i].behavior_type) : i \in DOMAIN behavior_data}
        |-> BehaviorCount(behavior_data, t)]

\* max(behavior_counts.items(), key=count)[0]: the first type met among
\* those met most often
MostCommonBehavior(behavior_data) ==
    LET i == CHOOSE k \in DOMAIN behavior_data :
                 /\ \A j \in DOMAIN behavior_data :
                       BehaviorCount(behavior_data, behavior_data[j].behavior_type)
                         <= BehaviorCount(behavior_data, behavior_data[k].behavior_type)
                 /\ \A j \in 1..(k - 1) :
                       BehaviorCount(behavior_data, behavior_data[j].behavior_type)
                         < BehaviorCount(behavior_data, behavior_data[k].behavior_type)
    IN  Upper(behavior_data[i].behavior_type)

\* average_score >= x is total_score >= x * total_interactions
analyze_user_behavior_patterns(behavior_data) ==
    IF behavior_data = <<>>
    THEN [total_interactions |-> 0, behavior_distribution |-> <<>>,
          total_score |-> 0,
          most_common_behavior |-> "None", engagement_level |-> "none"]
    ELSE LET n == Len(behavior_data)
             total == TotalScore(behavior_data)
         IN  [total_interactions |-> n,
              behavior_distribution |-> BehaviorDistribution(behavior_data),
              total_score |-> total,
              most_common_behavior |-> MostCommonBehavior(behavior_data),
              engagement_level |->
                  IF total >= 4 * n THEN "very_high"
                  ELSE IF total >= 3 * n THEN "high"
                  ELSE IF total >= 2 * n THEN "medium"
                  ELSE IF total >= n THEN "low"
                  ELSE "none"]

generate_personalized_recommendation_reason(analysis, similarity_score) ==
    LET base_reason ==
            IF similarity_score > 900 THEN "very similar nutrition"
            ELSE IF similarity_score > 800 THEN "similar product characteristics"
            ELSE IF similarity_score > 700 THEN "related product"
            ELSE "recommended product"
        level == analysis.engagement_level
        most == analysis.most_common_behavior
    IN  IF level = "very_high"
        THEN IF most = "REGISTER" THEN "often registered: " \o base_reason
             ELSE IF most = "LIKE" THEN "liked: " \o base_reason
             ELSE "actively followed: " \o base_reason
        ELSE IF level = "high"
        THEN IF most = "LIKE" THEN "preferred: " \o base_reason
             ELSE IF most = "SEARCH" THEN "searched: " \o base_reason
             ELSE "interested in: " \o base_reason
        ELSE IF level = "medium" THEN "seen before: " \o base_reason
        ELSE "recommended: " \o base_reason

\* get_enhanced_user_based_recommendations: each item of the basic result
\* gets a personalised reason and the user's engagement level
RECURSIVE Enhance(_, _)
Enhance(recs, analysis) ==
    IF recs = <<>> THEN <<>>
    ELSE LET rec == Head(recs)
         IN  <<[product_id |-> rec.product_id,
                similarity_score |-> rec.similarity_score,
                recommendation_reason |->
                    generate_personalized_recommendation_reason(
                        analysis, rec.similarity_score),
                user_engagement_level |-> analysis.engagement_level]>>
             \o Enhance(Tail(recs), analysis)

------------------------------------------------------------------------------
(* Routes *)

\* RecommendationResult(...): similarity_score has ge=0.0, le=1.0
ValidResult(rec) == rec.similarity_score >= 0 /\ rec.similarity_score <= 1000

RECURSIVE ToResults(_)
ToResults(recs) ==
    IF recs = <<>> THEN <<>>
    ELSE <<Rec(Head(recs).product_id, Head(recs).similarity_score,
               Head(recs).recommendation_reason)>> \o ToResults(Tail(recs))

Absent == "absent"

\* the body of both route handlers after the service call; label is
\* 'product-based' or 'user-based'.  Building a RecommendationResult from an
\* item that fails validation raises a ValueError, answered with HTTP 400; no
\* other statement of the try block raises on what the service returns, so
\* the handler for other exceptions (HTTP 500) has nothing to catch.
Route(label, recommendations, analysis, limit, avail, s) ==
    LET fallback_recommendations == get_popularity_based_fallback(limit, avail, s)
    IN  IF \E i \in DOMAIN recommendations : ~ValidResult(recommendations[i])
        THEN [status |-> 400, popCalls |-> <<>>, popRet |-> <<>>,
              recommendation_type |-> Absent, data_quality |-> Absent,
              recommendations |-> <<>>]
        ELSE IF recommendations = <<>>
        THEN IF fallback_recommendations # <<>>
             THEN [status |-> 200, popCalls |-> <<limit>>,
                   popRet |-> fallback_recommendations,
                   recommendation_type |-> "fallback", data_quality |-> "fair",
                   recommendations |-> ToResults(fallback_recommendations)]
             ELSE [status |-> 200, popCalls |-> <<limit>>, popRet |-> <<>>,
                   recommendation_type |-> "none", data_quality |-> "poor",
                   recommendations |-> <<>>]
        ELSE [status |-> 200, popCalls |-> <<>>, popRet |-> <<>>,
              recommendation_type |-> label,
              data_quality |->
                  evaluate_recommendation_quality(recommendations, analysis),
              recommendations |-> ToResults(recommendations)]

------------------------------------------------------------------------------
(* Initial values of the parts a specification does not use *)

NoCop == [op |-> "none"]
NoLast == [kind |-> "none"]
NoThr == <<>>
NoStore == <<>>
NoWr == [pc |-> "off"]
NoRd == [seen |-> "nothing"]

------------------------------------------------------------------------------
(* SpecCache: one caller using a RecommendationCache directly *)

CacheValues == {"result_0", "result_1"}
CacheKwargs == {ProductKwargs(p, l) : p \in ProductIds, l \in Limits}

InitCache ==
    /\ cache = <<>>
    /\ max_size = MaxSize
    /\ ttl_seconds = MaxTtl
    /\ now = 0
    /\ cop = NoCop
    /\ last = NoLast
    /\ thr = NoThr
    /\ store = NoStore
    /\ wr = NoWr
    /\ rd = NoRd

Tick ==
    /\ now < MaxTime
    /\ now' = now + 1
    /\ UNCHANGED <<cache, max_size, ttl_seconds, cop, last, thr, store, wr, rd>>

\* cop records the call, what it returned, and (had, size_before) whether the
\* key was stored and how many entries there were when the call was made
CacheGetOp(kw) ==
    LET r == CacheGet(cache, kw, now)
    IN  /\ cache' = r.cache
        /\ cop' = [op |-> "get", kw |-> kw, ret |-> r.ret, raised |-> FALSE,
                   had |-> KeyIndex(cache, _generate_key(kw)) # 0,
                   size_before |-> Len(cache)]
        /\ UNCHANGED <<max_size, ttl_seconds, now, last, thr, store, wr, rd>>

CacheSetOp(kw, v) ==
    LET r == CacheSet(cache, v, kw, now)
    IN  /\ cache' = r.cache
        /\ cop' = [op |-> "set", kw |-> kw, arg |-> v, raised |-> r.raised,
                   had |-> KeyIndex(cache, _generate_key(kw)) # 0,
                   size_before |-> Len(cache)]
        /\ UNCHANGED <<max_size, ttl_seconds, now, last, thr, store, wr, rd>>

CacheClearOp ==
    /\ cache' = CacheClear(cache)
    /\ cop' = [op |-> "clear", raised |-> FALSE, size_before |-> Len(cache)]
    /\ UNCHANGED <<max_size, ttl_seconds, now, last, thr, store, wr, rd>>

NextCache ==
    \/ Tick
    \/ \E kw \in CacheKwargs : CacheGetOp(kw)
    \/ \E kw \in CacheKwargs, v \in CacheValues : CacheSetOp(kw, v)
    \/ CacheClearOp

SpecCache == InitCache /\ [][NextCache]_vars

------------------------------------------------------------------------------
(* Spec: requests served one after the other by the two routes, over the   *)
(* process-wide cache.  Every request builds its own vector service, so    *)
(* whether the store is available is decided per request; the outcome of a *)
(* store call is an input of the request that makes it.                    *)

Histories == {<<Event(1, "REGISTER"), Event(2, "VIEW")>>}

Init ==
    /\ cache = <<>>
    /\ max_size = SharedSize
    /\ ttl_seconds = MaxTtl
    /\ now = 0
    /\ cop = NoCop
    /\ last = NoLast
    /\ thr = NoThr
    /\ store = NoStore
    /\ wr = NoWr
    /\ rd = NoRd

\* POST /product-based
ProductRequest(product_id, limit, avail, inj) ==
    LET g == CacheGet(cache, ProductKwargs(product_id, limit), now)
        reached == inj = "none" /\ g.ret = None /\ avail
    IN  \E ref \in IF reached THEN RefOutcomes ELSE {NoCall} :
        \E q \in IF reached /\ ref = "found"
                 THEN QueryOutcomes(product_id, limit + 1) ELSE {NoQuery} :
          LET p == ProductPrimary(cache, now, product_id, limit, avail, inj, ref, q)
          IN  \E s \in IF p.fallback /\ avail
                       THEN SampleOutcomes(limit) ELSE {NoSample} :
                LET svc == ProductService(p, limit, avail, s)
                IN  \E pop \in IF svc.ret = <<>> /\ avail
                               THEN SampleOutcomes(limit) ELSE {NoSample} :
                      LET r == Route("product-based", svc.ret, None, limit,
                                     avail, pop)
                      IN  /\ cache' = svc.cache
                          /\ last' = [kind |-> "product", id |-> product_id,
                                      limit |-> limit, avail |-> avail,
                                      svc |-> [svc EXCEPT !.cache = <<>>],
                                      resp |-> r]
                          /\ UNCHANGED <<max_size, ttl_seconds, now, cop, thr,
                                         store, wr, rd>>

\* POST /user-based
UserRequest(behavior_data, limit, avail, inj) ==
    LET reached == avail
        analysis == analyze_user_behavior_patterns(behavior_data)
    IN  \E gets \in IF reached
                    THEN [DOMAIN behavior_data -> {"found", "none", "raise"}]
                    ELSE {[i \in DOMAIN behavior_data |-> NoCall]} :
        \E q \in IF reached /\ inj = "none"
                    /\ generate_user_preference_vector(behavior_data, avail, gets)
                         # None
                 THEN QueryOutcomes(2, 2 * limit) ELSE {NoQuery} :
          LET p == UserPrimary(behavior_data, limit, avail, inj, gets, q)
          IN  \E s \in IF p.fallback /\ avail
                       THEN SampleOutcomes(limit) ELSE {NoSample} :
                LET svc == get_user_based_recommendations(p, limit, avail, s)
                    enhanced == Enhance(svc.ret, analysis)
                IN  \E pop \in IF svc.ret = <<>> /\ avail
                               THEN SampleOutcomes(limit) ELSE {NoSample} :
                      LET r == Route("user-based", enhanced, Some(analysis),
                                     limit, avail, pop)
                      IN  /\ last' = [kind |-> "user", id |-> 1,
                                      limit |-> limit, avail |-> avail,
                                      svc |-> svc, resp |-> r]
                          /\ UNCHANGED <<cache, max_size, ttl_seconds, now, cop,
                                         thr, store, wr, rd>>

Next ==
    \/ Tick
    \/ \E product_id \in ProductIds, limit \in Limits, avail \in BOOLEAN,
          inj \in Injections : ProductRequest(product_id, limit, avail, inj)
    \/ \E behavior_data \in Histories, limit \in Limits, avail \in BOOLEAN,
          inj \in UserInjections : UserRequest(behavior_data, limit, avail, inj)

Spec == Init /\ [][Next]_vars

------------------------------------------------------------------------------
(* SpecConc: several threads inside RecommendationCache.set at once.  A    *)
(* thread can be switched out between the capacity test, the search for    *)
(* the oldest key, its deletion and the insertion.                         *)

NSetters == 2
Setters == 1..NSetters

IdleSetter ==
    [pc |-> "idle", kw |-> ProductKwargs(1, 1), oldest |-> "", raised |-> "no"]

InitConc ==
    /\ cache = <<>>
    /\ max_size = SharedSize
    /\ ttl_seconds = MaxTtl
    /\ now = 0
    /\ cop = NoCop
    /\ last = NoLast
    /\ thr = [t \in Setters |-> IdleSetter]
    /\ store = NoStore
    /\ wr = NoWr
    /\ rd = NoRd

ConcFrame == UNCHANGED <<max_size, ttl_seconds, now, cop, last, store, wr, rd>>

\* a thread enters set(result, **kwargs)
SetCall(t, kw) ==
    /\ thr[t].pc = "idle"
    /\ thr' = [thr EXCEPT ![t] = [IdleSetter EXCEPT !.pc = "check", !.kw = kw]]
    /\ UNCHANGED cache
    /\ ConcFrame

\* if len(self.cache) >= self.max_size
SetCheck(t) ==
    /\ thr[t].pc = "check"
    /\ thr' = [thr EXCEPT ![t].pc =
                  IF Len(cache) >= max_size THEN "scan" ELSE "insert"]
    /\ UNCHANGED cache
    /\ ConcFrame

\* oldest_key = min(self.cache.keys(), key=...): ValueError on an empty dict
SetScan(t) ==
    /\ thr[t].pc = "scan"
    /\ thr' = IF cache = <<>>
              THEN [thr EXCEPT ![t].pc = "idle", ![t].raised = "ValueError"]
              ELSE [thr EXCEPT ![t].pc = "del",
                               ![t].oldest = cache[OldestIndex(cache)].key]
    /\ UNCHANGED cache
    /\ ConcFrame

\* del self.cache[oldest_key]: KeyError when the key is gone
SetDel(t) ==
    /\ thr[t].pc = "del"
    /\ LET i == KeyIndex(cache, thr[t].oldest)
       IN  IF i = 0
           THEN /\ thr' = [thr EXCEPT ![t].pc = "idle", ![t].raised = "KeyError"]
                /\ UNCHANGED cache
           ELSE /\ thr' = [thr EXCEPT ![t].pc = "insert"]
                /\ cache' = RemoveAt(cache, i)
    /\ ConcFrame

\* self.cache[key] = (result, time.time())
SetInsert(t) ==
    /\ thr[t].pc = "insert"
    /\ cache' = CachePut(cache, _generate_key(thr[t].kw), "result_0", now,
                         thr[t].kw)
    /\ thr' = [thr EXCEPT ![t].pc = "idle"]
    /\ ConcFrame

TickConc ==
    /\ now < MaxTime
    /\ now' = now + 1
    /\ UNCHANGED <<cache, max_size, ttl_seconds, cop, last, thr, store, wr, rd>>

NextConc ==
    \/ TickConc
    \/ \E t \in Setters, kw \in CacheKwargs : SetCall(t, kw)
    \/ \E t \in Setters : SetCheck(t)
    \/ \E t \in Setters : SetScan(t)
    \/ \E t \in Setters : SetDel(t)
    \/ \E t \in Setters : SetInsert(t)

SpecConc == InitConc /\ [][NextConc]_vars

------------------------------------------------------------------------------
(* SpecStore: one writer replacing a product record in the collection      *)
(* while a reader looks the product up.  A record is (id, embedding,       *)
(* metadata); the data written is named by its version.                    *)

MaxVersion == 2

Record(id, v) == [id |-> id, embedding |-> v, metadata |-> v]
StoreIndex(st, id) ==
    IF \E i \in DOMAIN st : st[i].id = id
    THEN CHOOSE i \in DOMAIN st : st[i].id = id
    ELSE 0

\* before is the content of the collection when the writer was called
IdleWriter ==
    [pc |-> "idle", op |-> "none", id |-> 1, data |-> 0, ret |-> FALSE,
     before |-> <<>>]

InitStore ==
    /\ cache = <<>>
    /\ max_size = SharedSize
    /\ ttl_seconds = MaxTtl
    /\ now = 0
    /\ cop = NoCop
    /\ last = NoLast
    /\ thr = NoThr
    /\ store = <<Record(1, 0)>>
    /\ wr = IdleWriter
    /\ rd = NoRd

StoreFrame == UNCHANGED <<cache, max_size, ttl_seconds, now, cop, last, thr>>

\* store_product_with_id / update_product_vector is called; without a
\* connection it returns False at once
WriterCall(op, v, avail) ==
    /\ wr.pc \in {"idle", "done"}
    /\ v <= MaxVersion
    /\ wr' = IF ~avail
             THEN [pc |-> "done", op |-> op, id |-> 1, data |-> v, ret |-> FALSE,
                   before |-> store]
             ELSE [pc |-> IF op = "store_product_with_id" THEN "get" ELSE "delete",
                   op |-> op, id |-> 1, data |-> v, ret |-> FALSE,
                   before |-> store]
    /\ UNCHANGED <<store, rd>>
    /\ StoreFrame

\* existing = self.collection.get(ids=[str(product_id)]); an exception is
\* passed over and the deletion skipped
WriterGet(raises) ==
    /\ wr.pc = "get"
    /\ wr' = [wr EXCEPT !.pc =
                 IF ~raises /\ StoreIndex(store, wr.id) # 0
                 THEN "delete" ELSE "generate"]
    /\ UNCHANGED <<store, rd>>
    /\ StoreFrame

\* delete_product_vector: an exception is logged, False is returned and
\* nobody looks at it
WriterDelete(raises) ==
    /\ wr.pc = "delete"
    /\ store' = IF ~raises /\ StoreIndex(store, wr.id) # 0
                THEN RemoveAt(store, StoreIndex(store, wr.id))
                ELSE store
    /\ wr' = [wr EXCEPT !.pc = "generate"]
    /\ UNCHANGED rd
    /\ StoreFrame

\* generate_product_vector and the metadata: an exception returns False
WriterGenerate(raises) ==
    /\ wr.pc = "generate"
    /\ wr' = IF raises THEN [wr EXCEPT !.pc = "done", !.ret = FALSE]
             ELSE [wr EXCEPT !.pc = "add"]
    /\ UNCHANGED <<store, rd>>
    /\ StoreFrame

\* self.collection.add(...): it may raise; on an id that is already stored
\* the collection either keeps the old record without a word or raises,
\* depending on its version
WriterAdd(raises, duplicate) ==
    /\ wr.pc = "add"
    /\ IF raises
       THEN /\ wr' = [wr EXCEPT !.pc = "done", !.ret = FALSE]
            /\ UNCHANGED store
       ELSE IF StoreIndex(store, wr.id) # 0
       THEN /\ wr' = [wr EXCEPT !.pc = "done", !.ret = (duplicate = "ignored")]
            /\ UNCHANGED store
       ELSE /\ wr' = [wr EXCEPT !.pc = "done", !.ret = TRUE]
            /\ store' = Append(store, Record(wr.id, wr.data))
    /\ UNCHANGED rd
    /\ StoreFrame

\* get_product_by_id from another request
Read(avail, raises) ==
    /\ rd' = IF ~avail \/ raises THEN [seen |-> "none", records |-> <<>>]
             ELSE LET found == SelectSeq(store, LAMBDA r : r.id = 1)
                  IN  [seen |-> IF found = <<>> THEN "none" ELSE "record",
                       records |-> found]
    /\ UNCHANGED <<store, wr>>
    /\ StoreFrame

NextStore ==
    \/ \E op \in {"store_product_with_id", "update_product_vector"},
          v \in 1..MaxVersion, avail \in BOOLEAN : WriterCall(op, v, avail)
    \/ \E raises \in BOOLEAN : WriterGet(raises)
    \/ \E raises \in BOOLEAN : WriterDelete(raises)
    \/ \E raises \in BOOLEAN : WriterGenerate(raises)
    \/ \E raises \in BOOLEAN, duplicate \in {"ignored", "raises"} :
          WriterAdd(raises, duplicate)
    \/ \E avail \in BOOLEAN, raises \in BOOLEAN : Read(avail, raises)

SpecStore == InitStore /\ [][NextStore]_vars

------------------------------------------------------------------------------
(* Claims about the cache used by one caller *)

Entries(c) == {c[i] : i \in DOMAIN c}
Keys(c) == {c[i].key : i \in DOMAIN c}

\* a step of SpecCache that is the call recorded in cop'
IsCall(op) == now' = now /\ cop'.op = op

\* C4: get(signature) misses and changes nothing when no entry exists; returns
\* the stored value and changes nothing (the entry's insertedAt included) when
\* now - insertedAt < ttlSeconds; removes exactly that entry and misses when
\* now - insertedAt >= ttlSeconds. So an entry set at t, while stored, is
\* returned by every get before t + ttl and by none at or after it.
C4_GetContract ==
    [][IsCall("get") =>
        LET k == _generate_key(cop'.kw)
            E == {i \in DOMAIN cache : cache[i].key = k}
        IN  /\ E = {} => (cop'.ret = None /\ cache' = cache)
            /\ \A i \in E :
                 /\ now - cache[i].ts < ttl_seconds =>
                       (cop'.ret = Some(cache[i].value) /\ cache' = cache)
                 /\ now - cache[i].ts >= ttl_seconds =>
                       /\ cop'.ret = None
                       /\ Len(cache') = Len(cache) - 1
                       /\ Entries(cache') = Entries(cache) \ {cache[i]}
                       /\ k \notin Keys(cache')
    ]_vars

\* an expired entry was read: it was removed and the call missed
C4_Witness ==
    /\ cop.op = "get" /\ cop.had /\ cop.ret = None
    /\ Len(cache) = cop.size_before - 1

\* what every set at capacity does, whatever the key: the first oldest entry
\* goes, every other entry under another key stays, the key holds (value, now)
SetAtCapacityCommon(o, k) ==
    /\ ~cop'.raised
    /\ \A j \in DOMAIN cache : cache[o].ts <= cache[j].ts
    /\ Keys(cache') = (Keys(cache) \ {cache[o].key}) \cup {k}
    /\ \A j \in DOMAIN cache :
          (j # o /\ cache[j].key # k) => cache[j] \in Entries(cache')
    /\ \E m \in DOMAIN cache' :
          /\ cache'[m].key = k
          /\ cache'[m].value = cop'.arg
          /\ cache'[m].ts = now

\* C5 as stated: every set made while the cache holds maxSize entries, for a
\* new or an already present key, removes exactly the oldest entry and leaves
\* the cache holding exactly maxSize entries, the key holding (value, now).
C5_SetAtCapacity_Original ==
    [][(IsCall("set") /\ Len(cache) = max_size) =>
        \E o \in DOMAIN cache :
            /\ SetAtCapacityCommon(o, _generate_key(cop'.kw))
            /\ Len(cache') = max_size
    ]_vars

\* C5 amended: a set made while the cache holds maxSize entries always removes
\* the oldest entry and stores (value, now) under the key; the cache is left
\* with exactly maxSize entries when the key is new or is itself the oldest
\* entry, and with maxSize - 1 entries when the key is already present under
\* another, younger entry (the oldest is evicted although nothing is added).
C5_SetAtCapacity ==
    [][(IsCall("set") /\ Len(cache) = max_size) =>
        \E o \in DOMAIN cache :
            LET k == _generate_key(cop'.kw)
            IN  /\ SetAtCapacityCommon(o, k)
                /\ Len(cache') = IF k \in Keys(cache) \ {cache[o].key}
                                 THEN max_size - 1
                                 ELSE max_size
    ]_vars

\* a set of a new key found the cache full and left it full
C5_Witness ==
    /\ cop.op = "set" /\ ~cop.had
    /\ cop.size_before = max_size
    /\ Len(cache) = max_size

\* C6: with maxSize >= 1 and one caller at a time, after any sequence of get,
\* set and clear the cache holds at most maxSize entries, no set raises, and
\* clear leaves the cache empty.
C6_Bounded ==
    max_size >= 1 =>
        /\ Len(cache) <= max_size
        /\ (cop.op = "set" => ~cop.raised)
        /\ (cop.op = "clear" => cache = <<>>)

\* a set on a full cache was absorbed
C6_Witness ==
    /\ max_size >= 1
    /\ cop.op = "set" /\ cop.size_before = max_size /\ ~cop.raised
    /\ Len(cache) = max_size
    /\ now > 0

------------------------------------------------------------------------------
(* Claims about the orchestrator: service and routes *)

Handled == last.kind \in {"product", "user"}
Label == IF last.kind = "product" THEN "product-based" ELSE "user-based"

\* the three outcomes of the orchestrator's state machine, the primary stage
\* being the cache lookup and the similarity (resp. preference) search
OutcomeSuccess ==
    /\ last.svc.primary # <<>>
    /\ last.resp.status = 200
    /\ last.resp.recommendation_type = Label
    /\ last.svc.fbCalls = <<>> /\ last.resp.popCalls = <<>>
OutcomeFallback ==
    /\ last.svc.primary = <<>>
    /\ last.resp.status = 200
    /\ last.resp.popRet # <<>>
    /\ last.resp.recommendation_type = "fallback"
    /\ last.resp.data_quality = "fair"
OutcomeNone ==
    /\ last.svc.primary = <<>>
    /\ last.resp.status = 200
    /\ last.resp.popCalls # <<>> /\ last.resp.popRet = <<>>
    /\ last.resp.recommendation_type = "none"
    /\ last.resp.data_quality = "poor"
    /\ last.resp.recommendations = <<>>

\* C1: every request handled by a route ends in exactly one of: the primary
\* stage was non-empty, the response is typed 'product-based' (resp.
\* 'user-based') and no popularity fallback ran; the primary stage was empty,
\* the popularity fallback was not, the response is typed 'fallback' with
\* quality 'fair'; both were empty, the response is typed 'none' with quality
\* 'poor' and no items.  The popularity fallback runs only after an empty
\* primary stage.
C1_ThreeOutcomes ==
    Handled =>
        /\ OutcomeSuccess \/ OutcomeFallback \/ OutcomeNone
        /\ last.resp.popCalls # <<>> => last.svc.primary = <<>>

\* the exceptions that search_by_user_preferences keeps to itself
Swallowed == {"query", "metadata"}

\* C2 as stated: whenever an exception was raised inside the primary stage of
\* either service method, the call raised nothing and returned the list of
\* get_fallback_recommendations for the requested limit.
C2_ExceptionsCaught_Original ==
    (Handled /\ last.svc.excs # {}) =>
        /\ ~last.svc.raised
        /\ last.svc.fbCalls = <<last.limit>>
        /\ last.svc.ret = last.svc.fbRet

\* C2 amended: no exception raised inside the primary stage reaches the
\* caller.  The product-based method then returns the list of
\* get_fallback_recommendations(limit).  The user-based method returns that
\* list when the exception escapes into the method itself or when no event
\* yields a vector; when only some embedding lookups raise it carries on
\* with the search; when the store query raises inside
\* search_by_user_preferences it returns the empty list, without fallback.
C2_ExceptionsCaught ==
    (Handled /\ last.svc.excs # {}) =>
        /\ ~last.svc.raised
        /\ IF last.kind = "user" /\ last.svc.excs \cap Swallowed # {}
           THEN last.svc.ret = <<>> /\ last.svc.fbCalls = <<>>
           ELSE IF last.kind = "user" /\ last.svc.excs = {"embedding_get"}
           THEN \/ /\ last.svc.fbCalls = <<last.limit>>
                   /\ last.svc.ret = last.svc.fbRet
                   /\ ~last.svc.searched
                \/ /\ last.svc.fbCalls = <<>>
                   /\ last.svc.searched
                   /\ last.svc.ret = last.svc.primary
           ELSE /\ last.svc.fbCalls = <<last.limit>>
                /\ last.svc.ret = last.svc.fbRet

\* the similarity search raised and the caller got the fallback products
C2_Witness ==
    /\ last.kind = "product"
    /\ "search" \in last.svc.excs
    /\ last.svc.fbRet # <<>>
    /\ last.svc.ret = last.svc.fbRet
    /\ ~last.svc.raised

\* C3: in every reachable state a product-based request made while the store
\* reports unavailable goes straight to fallback: no primary lookup result is
\* used, the answer carries the popularity fallback list or no item at all,
\* and nothing is raised.
C3_UnavailableGoesToFallback ==
    (last.kind = "product" /\ ~last.avail) =>
        /\ ~last.svc.hit /\ ~last.svc.searched
        /\ last.svc.primary = <<>>
        /\ last.resp.status = 200
        /\ last.resp.recommendations = ToResults(last.resp.popRet)

\* C7: a product-based call whose search returned a non-empty list stores it
\* under its (product_id, limit) at the time of the call; a call that finds a
\* fresh entry under its own (product_id, limit) returns that entry's list
\* and does not search again, so the next call with the same product_id and
\* limit, made before ttl_seconds have passed, returns the identical list;
\* an entry is only ever read by a call with the product_id and the limit
\* that wrote it.
C7_CacheServesRepeat ==
    [][(now' = now /\ last'.kind = "product"
           /\ "cache_get" \notin last'.svc.excs) =>
        LET kw == ProductKwargs(last'.id, last'.limit)
        IN  /\ \A i \in DOMAIN cache :
                  (cache[i].kw = kw /\ now - cache[i].ts < ttl_seconds) =>
                      /\ last'.svc.hit /\ ~last'.svc.searched
                      /\ last'.svc.ret = cache[i].value
            /\ (/\ last.kind = "product" /\ last.svc.searched
                /\ last.svc.primary # <<>>
                /\ last.id = last'.id /\ last.limit = last'.limit
                /\ \E i \in DOMAIN cache :
                      cache[i].kw = kw /\ now - cache[i].ts < ttl_seconds) =>
                  /\ last'.svc.ret = last.svc.ret
                  /\ ~last'.svc.searched
            /\ last'.svc.hit =>
                  \E i \in DOMAIN cache :
                      /\ cache[i].kw = kw
                      /\ cache[i].value = last'.svc.ret
            /\ (last'.svc.searched /\ last'.svc.primary # <<>>) =>
                  \E i \in DOMAIN cache' :
                      /\ cache'[i].kw = kw
                      /\ cache'[i].value = last'.svc.primary
                      /\ cache'[i].ts = now
    ]_vars

\* a repeated call was served from an entry stored at an earlier second
C7_Witness ==
    /\ last.kind = "product" /\ last.svc.hit /\ ~last.svc.searched
    /\ \E i \in DOMAIN cache :
          /\ cache[i].kw = ProductKwargs(last.id, last.limit)
          /\ cache[i].value = last.svc.ret
          /\ cache[i].ts < now

\* C10: whatever the store does, every structurally valid request is answered
\* with an envelope carrying data_quality, never with an HTTP error.
C10_AlwaysEnvelope ==
    Handled =>
        /\ last.resp.status = 200
        /\ last.resp.data_quality \in {"excellent", "good", "fair", "poor"}

------------------------------------------------------------------------------
(* Claims about concurrent use *)

InFlight == Cardinality({t \in Setters : thr[t].pc # "idle"})

\* C8: however set calls interleave, the cache holds at most maxSize entries
\* plus one per set call that can be in flight, and no other harm is done:
\* no set call raises and no key is stored twice.
C8_SoftBoundNoHarm ==
    /\ Len(cache) <= max_size + NSetters
    /\ \A t \in Setters : thr[t].raised = "no"
    /\ \A i, j \in DOMAIN cache : cache[i].key = cache[j].key => i = j

\* the soft bound itself: the cache can exceed maxSize, by less than the
\* number of threads
C8_Exceeds == Len(cache) > max_size

\* C9: a reader sees the product missing or sees exactly one record whose
\* embedding and metadata come from the same write; once the writer has
\* returned True the store holds exactly one record for the id, carrying the
\* data of that call.
C9_ReplaceOnWrite ==
    /\ rd.seen = "record" =>
          /\ Len(rd.records) = 1
          /\ rd.records[1].embedding = rd.records[1].metadata
    /\ (wr.pc = "done" /\ wr.ret) =>
          /\ Cardinality({i \in DOMAIN store : store[i].id = wr.id}) = 1
          /\ \A i \in DOMAIN store :
                store[i].id = wr.id => store[i] = Record(wr.id, wr.data)

\* the reader found the product missing while the writer was between its
\* delete and its add
C9_TransientMissing ==
    /\ wr.pc \in {"generate", "add"}
    /\ rd.seen = "none"
    /\ store = <<>>

------------------------------------------------------------------------------
(* Specifications that call one function: the initial state holds the     *)
(* arguments of the call in last, the one step replaces them by the call    *)
(* with its result                                                          *)

InitPure(calls) ==
    /\ cache = <<>>
    /\ max_size = SharedSize
    /\ ttl_seconds = MaxTtl
    /\ now = 0
    /\ cop = NoCop
    /\ last \in calls
    /\ thr = NoThr
    /\ store = NoStore
    /\ wr = NoWr
    /\ rd = NoRd

PureFrame == UNCHANGED <<cache, max_size, ttl_seconds, now, cop, thr, store, wr, rd>>

------------------------------------------------------------------------------
(* SpecUser: the user-based flow over one ranking answered by the store *)

CandidateIds == 1..4

\* the rankings collection.query(n_results=n) can answer: at most n distinct
\* products, nearest first
Rankings(n) ==
    {h \in UNION {[1..k -> CandidateIds] : k \in 0..n} :
        \A i, j \in DOMAIN h : h[i] = h[j] => i = j}
RankedHits(h) == [i \in DOMAIN h |-> Hit(h[i], 100 * i)]

UserHistories ==
    {<<Event(1, "LIKE")>>,
     <<Event(1, "VIEW"), Event(2, "REGISTER")>>,
     <<Event(3, "SEARCH"), Event(1, "VIEW")>>}

\* UserBehaviorRecommendationService.get_recommendations: the same search and
\* filter; it answers [] where the other service turns to its fallback, and
\* copies each kept item with a personalised reason and the engagement level
UserBehaviorRecommendations(behavior_data, limit, avail, gets, q) ==
    LET p == UserPrimary(behavior_data, limit, avail, "none", gets, q)
    IN  IF p.fallback THEN <<>>
        ELSE Enhance(p.ret, analyze_user_behavior_patterns(behavior_data))

InitUser ==
    \E b \in UserHistories, l \in Limits :
        \E g \in [DOMAIN b -> {"found", "none"}], h \in Rankings(2 * l) :
            InitPure({[kind |-> "user_call", behavior_data |-> b, limit |-> l,
                       gets |-> g, ranking |-> h]})

UserFlow ==
    LET behavior_data == last.behavior_data
        limit == last.limit
        gets == last.gets
        q == [raises |-> FALSE, hits |-> RankedHits(last.ranking)]
    IN  /\ last.kind = "user_call"
        /\ last' = [kind |-> "user_flow",
                    behavior_data |-> behavior_data,
                    limit |-> limit,
                    vector |-> generate_user_preference_vector(
                                   behavior_data, TRUE, gets),
                    hits |-> q.hits,
                    p |-> UserPrimary(behavior_data, limit, TRUE, "none", gets, q),
                    enhanced |-> UserBehaviorRecommendations(
                                     behavior_data, limit, TRUE, gets, q)]
        /\ PureFrame

SpecUser == InitUser /\ [][UserFlow]_vars

------------------------------------------------------------------------------
(* Claims about the user-based flow *)

Ids(recs) == [i \in DOMAIN recs |-> recs[i].product_id]

\* position of product p in the store's ranking (0 when it is not ranked)
Rank(hits, p) ==
    IF \E i \in DOMAIN hits : hits[i].product_id = p
    THEN CHOOSE i \in DOMAIN hits : hits[i].product_id = p
    ELSE 0

\* ids is free of the history's products, no longer than limit, and lists
\* ranked products in the order of the ranking
FilteredRanking(ids, behavior_data, limit, hits) ==
    /\ \A i \in DOMAIN ids :
          \A e \in DOMAIN behavior_data :
              ids[i] # behavior_data[e].product_id
    /\ Len(ids) <= limit
    /\ \A i \in DOMAIN ids : Rank(hits, ids[i]) > 0
    /\ \A i, j \in DOMAIN ids : i < j => Rank(hits, ids[i]) < Rank(hits, ids[j])

\* C11: when the preference vector is available the user-based flow asks the
\* store for 2*limit neighbours, and the list it returns holds no product of
\* the behaviour history, at most limit items, and keeps the store's ranking
\* order among the candidates it kept.
C11_FilterTruncateOrder ==
    (last.kind = "user_flow" /\ last.vector # None) =>
        /\ last.p.queried = <<2 * last.limit>>
        /\ FilteredRanking(Ids(last.p.ret), last.behavior_data,
                           last.limit, last.hits)
        /\ FilteredRanking(Ids(last.enhanced), last.behavior_data,
                           last.limit, last.hits)

\* a ranking that names a product of the history and more fresh products
\* than the limit was cut down to limit items
C11_Witness ==
    /\ last.kind = "user_flow" /\ last.vector # None
    /\ \E i \in DOMAIN last.hits : \E e \in DOMAIN last.behavior_data :
          last.hits[i].product_id = last.behavior_data[e].product_id
    /\ Len(last.hits) > Len(last.p.ret) + 1
    /\ Len(last.p.ret) = last.limit
    /\ Len(last.enhanced) = last.limit

------------------------------------------------------------------------------
(* ProductBasedRecommendationService.  The three nutrition ratios of a      *)
(* product are kept as a vector of small naturals (cosine similarity does   *)
(* not depend on the scale); similarities are kept in thousandths, rounded  *)
(* down, and the final score in ten-thousandths.                            *)

\* str.strip() and str.lower() on the spellings used by the model
Strip(s) ==
    CASE s = " Sugar " -> "Sugar"
      [] s = "  " -> ""
      [] OTHER -> s
Lower(s) ==
    CASE s = "Sugar" -> "sugar"
      [] s = " Sugar " -> " sugar "
      [] s = "SALT" -> "salt"
      [] OTHER -> s

Dot(a, b) == a[1] * b[1] + a[2] * b[2] + a[3] * b[3]

\* the integer part of the square root
ISqrt(v) == CHOOSE x \in 0..1000 : x * x <= v /\ v < (x + 1) * (x + 1)

\* cosine similarity of the ratio vectors, moved from [-1, 1] to [0, 1]
calculate_nutrition_similarity(ratios1, ratios2) ==
    IF Dot(ratios1, ratios1) = 0 \/ Dot(ratios2, ratios2) = 0 THEN 0
    ELSE LET d == Dot(ratios1, ratios2)
             similarity == ISqrt((1000000 * d * d)
                                 \div (Dot(ratios1, ratios1) * Dot(ratios2, ratios2)))
         IN  Max(0, Min(1000, (similarity + 1000) \div 2))

RECURSIVE SumOver(_, _)
SumOver(S, w) ==
    IF S = {} THEN 0
    ELSE LET x == CHOOSE y \in S : TRUE
         IN  w[x] + SumOver(S \ {x}, w)

\* the names compared: the first five entries, lower case, stripped
IngredientSet(ingredients) ==
    {Strip(Lower(ingredients[i])) :
        i \in {k \in 1..Min(5, Len(ingredients)) : Strip(ingredients[k]) # ""}}
\* weight 2.0 for a name among the first three entries, 1.0 otherwise
IngredientWeight(ingredients, x) ==
    IF \E i \in 1..Min(3, Len(ingredients)) : Strip(Lower(ingredients[i])) = x
    THEN 2 ELSE 1

\* weighted Jaccard similarity of the two ingredient lists
calculate_ingredient_similarity(ingredients1, ingredients2) ==
    LET set1 == IngredientSet(ingredients1)
        set2 == IngredientSet(ingredients2)
        max_weight == [x \in set1 \cup set2 |->
                          Max(IF x \in set1 THEN IngredientWeight(ingredients1, x) ELSE 0,
                              IF x \in set2 THEN IngredientWeight(ingredients2, x) ELSE 0)]
        weighted_union == SumOver(set1 \cup set2, max_weight)
        weighted_intersection == SumOver(set1 \cap set2, max_weight)
    IN  IF ingredients1 = <<>> \/ ingredients2 = <<>> THEN 0
        ELSE IF set1 = {} \/ set2 = {} THEN 0
        ELSE IF weighted_union = 0 THEN 0
        ELSE Max(0, Min(1000, (1000 * weighted_intersection) \div weighted_union))

\* the weights exchanged: 0.4 * nutrition + 0.6 * ingredient
FinalScoreIngredientFirst(nutrition_similarity, ingredient_similarity) ==
    Max(0, Min(10000, 4 * nutrition_similarity + 6 * ingredient_similarity))

\* 0.6 * nutrition + 0.4 * ingredient, in ten-thousandths
calculate_final_score(nutrition_similarity, ingredient_similarity) ==
    Max(0, Min(10000, 6 * nutrition_similarity + 4 * ingredient_similarity))

\* round(x, 3) of a score in ten-thousandths: to the nearest thousandth, a
\* tie going to the even one
Round3(x) ==
    LET q == x \div 10
        r == x % 10
    IN  IF r > 5 \/ (r = 5 /\ q % 2 = 1) THEN q + 1 ELSE q

\* a reason chosen from the final score alone
ReasonByFinalScore(nutrition_similarity, ingredient_similarity, final_score) ==
    IF final_score >= 9000 THEN "very similar product"
    ELSE IF final_score >= 8000 THEN "similar nutrition"
    ELSE IF final_score >= 7000 THEN "similar nutrition ratio"
    ELSE IF final_score >= 6000 THEN "product with similar traits"
    ELSE "related product"

ProductBased_generate_recommendation_reason(nutrition_similarity, ingredient_similarity, final_score) ==
    IF final_score >= 9000
    THEN IF nutrition_similarity >= 800 /\ ingredient_similarity >= 800
         THEN "nutrition and ingredients very similar"
         ELSE IF nutrition_similarity >= 800 THEN "nutrition ratio very similar"
         ELSE IF ingredient_similarity >= 800 THEN "main ingredients very similar"
         ELSE "very similar product"
    ELSE IF final_score >= 8000
    THEN IF nutrition_similarity > ingredient_similarity
         THEN "similar nutrition" ELSE "similar main ingredients"
    ELSE IF final_score >= 7000
    THEN IF nutrition_similarity >= 700 THEN "similar nutrition ratio"
         ELSE IF ingredient_similarity >= 700 THEN "similar ingredients"
         ELSE "related product"
    ELSE IF final_score >= 6000 THEN "product with similar traits"
    ELSE "related product"

\* one metadata record of the collection; broken marks a record whose
\* processing raises (main_ingredients is not a string)
Product(id, ratios, main_ingredients, broken) ==
    [product_id |-> id, ratios |-> ratios,
     main_ingredients |-> main_ingredients, broken |-> broken]

\* a scan that keeps the candidates in store order
KeepOrder(recs) == recs

\* list.sort(key=similarity_score, reverse=True): stable, best first
RECURSIVE SortByScore(_)
SortByScore(recs) ==
    IF recs = <<>> THEN <<>>
    ELSE LET rest == SortByScore(SubSeq(recs, 1, Len(recs) - 1))
             x == recs[Len(recs)]
             k == Cardinality({i \in DOMAIN rest :
                                  rest[i].similarity_score >= x.similarity_score})
         IN  SubSeq(rest, 1, k) \o <<x>> \o SubSeq(rest, k + 1, Len(rest))

\* the loop over all_products['metadatas']
RECURSIVE ScanCandidates(_, _, _)
ScanCandidates(reference, product_id, metadatas) ==
    IF metadatas = <<>> THEN <<>>
    ELSE LET metadata == Head(metadatas)
             rest == ScanCandidates(reference, product_id, Tail(metadatas))
             nutrition_similarity ==
                 calculate_nutrition_similarity(reference.ratios, metadata.ratios)
             ingredient_similarity ==
                 calculate_ingredient_similarity(reference.main_ingredients,
                                                 metadata.main_ingredients)
             final_score ==
                 calculate_final_score(nutrition_similarity, ingredient_similarity)
         IN  IF metadata.product_id = product_id THEN rest
             ELSE IF metadata.broken THEN rest
             ELSE IF final_score < 1000 THEN rest
             ELSE <<[product_id |-> metadata.product_id,
                     similarity_score |-> Round3(final_score),
                     nutrition_similarity |-> nutrition_similarity,
                     ingredient_similarity |-> ingredient_similarity,
                     recommendation_reason |->
                         ProductBased_generate_recommendation_reason(
                             nutrition_similarity, ingredient_similarity,
                             final_score),
                     nutrition_ratios |-> metadata.ratios,
                     main_ingredients |-> metadata.main_ingredients]>> \o rest

\* ProductBasedRecommendationService.get_recommendations: reference is what
\* get_product_by_id answers, count what get_collection_info reports
ProductBased_get_recommendations(product_id, limit, avail, reference, count, getRaises, metadatas) ==
    IF ~avail THEN <<>>
    ELSE IF reference = None THEN <<>>
    ELSE IF count <= 1 THEN <<>>
    ELSE IF getRaises THEN <<>>
    ELSE Take(SortByScore(ScanCandidates(reference[1], product_id, metadatas)),
              limit)

------------------------------------------------------------------------------
(* SpecProduct: get_recommendations over one content of the collection *)

MaxProducts == 3

ReferenceProduct == Product(1, <<3, 1, 1>>, <<"sugar", "flour", "SALT">>, FALSE)

\* the records the collection may hold besides the reference product
CandidatePool ==
    {ReferenceProduct,
     Product(2, <<3, 1, 1>>, <<" Sugar ", "flour">>, FALSE),
     Product(3, <<0, 0, 0>>, <<"sugar", "milk">>, FALSE),
     Product(4, <<0, 0, 0>>, <<"milk">>, FALSE),
     Product(5, <<1, 1, 3>>, <<>>, FALSE),
     Product(6, <<3, 1, 1>>, <<"sugar">>, TRUE),
     Product(7, <<0, 0, 5>>, <<"salt">>, FALSE)}

Collections == UNION {[1..k -> CandidatePool] : k \in 0..MaxProducts}

InitProduct ==
    \E l \in Limits, a \in BOOLEAN, f \in BOOLEAN, c \in BOOLEAN,
       g \in BOOLEAN, m \in Collections :
        InitPure({[kind |-> "product_call", limit |-> l, avail |-> a, found |-> f,
                   countRaises |-> c, getRaises |-> g, metadatas |-> m]})

ProductFlow ==
    /\ last.kind = "product_call"
    /\ last' = [kind |-> "product_flow",
                product_id |-> ReferenceProduct.product_id,
                limit |-> last.limit,
                metadatas |-> last.metadatas,
                scanned |-> last.avail /\ last.found /\ ~last.countRaises
                            /\ ~last.getRaises /\ Len(last.metadatas) > 1,
                ret |-> ProductBased_get_recommendations(
                            ReferenceProduct.product_id, last.limit, last.avail,
                            IF last.found THEN Some(ReferenceProduct) ELSE None,
                            IF last.countRaises THEN 0 ELSE Len(last.metadatas),
                            last.getRaises, last.metadatas)]
    /\ PureFrame

SpecProduct == InitProduct /\ [][ProductFlow]_vars

------------------------------------------------------------------------------
(* Claims about ProductBasedRecommendationService *)

\* the final score the service computes for a record, in ten-thousandths
ScoreOf(metadata) ==
    calculate_final_score(
        calculate_nutrition_similarity(ReferenceProduct.ratios, metadata.ratios),
        calculate_ingredient_similarity(ReferenceProduct.main_ingredients,
                                        metadata.main_ingredients))

\* C12: get_recommendations never lists the reference product, lists only
\* items scoring at least 0.1, in non-increasing order of similarity_score,
\* at most limit of them; a record whose processing fails is left out and the
\* records after it are still scanned (while fewer than limit items are
\* returned, every sound record scoring at least 0.1 is among them).
C12_ScanThresholdSortTruncate ==
    last.kind = "product_flow" =>
        /\ \A i \in DOMAIN last.ret :
              /\ last.ret[i].product_id # last.product_id
              /\ last.ret[i].similarity_score >= 100
              /\ \E k \in DOMAIN last.metadatas :
                    /\ last.metadatas[k].product_id = last.ret[i].product_id
                    /\ ~last.metadatas[k].broken
                    /\ ScoreOf(last.metadatas[k]) >= 1000
        /\ \A i, j \in DOMAIN last.ret :
              i < j => last.ret[i].similarity_score >= last.ret[j].similarity_score
        /\ Len(last.ret) <= last.limit
        /\ (last.scanned /\ Len(last.ret) < last.limit) =>
              \A k \in DOMAIN last.metadatas :
                  (/\ last.metadatas[k].product_id # last.product_id
                   /\ ~last.metadatas[k].broken
                   /\ ScoreOf(last.metadatas[k]) >= 1000) =>
                      \E i \in DOMAIN last.ret :
                          last.ret[i].product_id = last.metadatas[k].product_id

\* the collection held the reference product, then a record that cannot be
\* processed, then a better and a worse candidate in the wrong order; the
\* better one was returned alone
C12_Witness ==
    /\ last.kind = "product_flow" /\ last.scanned
    /\ Len(last.metadatas) = 3
    /\ last.metadatas[1].broken
    /\ last.metadatas[2].product_id = 3
    /\ last.metadatas[3].product_id = 2
    /\ last.limit = 1
    /\ Len(last.ret) = 1 /\ last.ret[1].product_id = 2

------------------------------------------------------------------------------
(* SpecPopular: get_popularity_based_fallback over one content of the store *)

MaxStored == 12

\* the order in which the collection lists n stored products (not the order
\* of their ids)
ListedProducts(n) == [i \in 1..n |-> [product_id |-> ((7 * i) % 17)]]

\* what collection.get(limit=k) answers on a store of n products, the record
\* at position missing (if any) carrying no product_id
Listing(n, k, missing) ==
    [i \in 1..Min(k, n) |->
        IF i = missing THEN [product_id |-> NoKey] ELSE ListedProducts(n)[i]]

InitPopular ==
    \E l \in 1..MaxStored, a \in BOOLEAN, n \in 0..MaxStored,
       c \in BOOLEAN, g \in BOOLEAN, m \in {0, 2} :
        InitPure({[kind |-> "popular_call", limit |-> l, avail |-> a, count |-> n,
                   countRaises |-> c, getRaises |-> g, missing |-> m]})

PopularFlow ==
    /\ last.kind = "popular_call"
    /\ last' = [kind |-> "popular_flow",
                limit |-> last.limit, count |-> last.count,
                works |-> /\ last.avail /\ ~last.countRaises /\ ~last.getRaises
                          /\ ~(last.missing \in 1..Min(last.limit, last.count)),
                ret |-> get_popularity_based_fallback(
                            last.limit, last.avail,
                            Sample(last.countRaises, last.count, last.getRaises,
                                   Listing(last.count, last.limit, last.missing)))]
    /\ PureFrame

SpecPopular == InitPopular /\ [][PopularFlow]_vars

------------------------------------------------------------------------------
(* Claims about the popularity fallback *)

Scores(recs) == [i \in DOMAIN recs |-> recs[i].similarity_score]

\* C13: get_popularity_based_fallback(limit) returns min(limit, count)
\* products in store order, the item at position i (from 0) scoring
\* max(0.3, 0.8 - 0.05 i): scores never rise, start at 0.8 and stay at or
\* above 0.3, five stored products giving 0.8, 0.75, 0.70, 0.65, 0.60; the
\* list is empty when the store is unavailable or empty or the fetch fails
\* (the count or the listing raises, or a listed record has no product_id).
C13_PopularityFallback ==
    last.kind = "popular_flow" =>
        IF last.works
        THEN /\ Len(last.ret) = Min(last.limit, last.count)
             /\ Ids(last.ret) = Ids(SubSeq(ListedProducts(last.count), 1,
                                           Len(last.ret)))
             /\ \A i \in DOMAIN last.ret :
                   /\ (800 - 50 * (i - 1) >= 300) =>
                          last.ret[i].similarity_score = 800 - 50 * (i - 1)
                   /\ (800 - 50 * (i - 1) < 300) =>
                          last.ret[i].similarity_score = 300
                   /\ last.ret[i].similarity_score >= 300
                   /\ i > 1 => last.ret[i].similarity_score
                                   <= last.ret[i - 1].similarity_score
             /\ last.ret # <<>> => last.ret[1].similarity_score = 800
             /\ (last.count = 5 /\ last.limit >= 5) =>
                   Scores(last.ret) = <<800, 750, 700, 650, 600>>
        ELSE last.ret = <<>>

\* twelve products were listed and the last one got the floor score, which
\* the formula without floor would have put at 0.25
C13_Witness ==
    /\ last.kind = "popular_flow" /\ last.works
    /\ Len(last.ret) = 12
    /\ last.ret[12].similarity_score = 300
    /\ last.ret[5].similarity_score = 600
    /\ last.ret[1].product_id = 7 /\ last.ret[2].product_id = 14

------------------------------------------------------------------------------
(* Claims about the service's fallback when the store is unavailable *)

\* C14: when the vector store is unavailable,
\* get_product_based_recommendations calls get_popularity_based_fallback
\* exactly once, with the request's limit, and returns exactly the list that
\* call produced.
C14_UnavailableCallsPopularity ==
    (last.kind = "product" /\ ~last.avail) =>
        /\ last.svc.popCalls = <<last.limit>>
        /\ last.svc.ret = get_popularity_based_fallback(
                              last.limit, last.avail, NoSample)

------------------------------------------------------------------------------
(* SpecPreference: generate_user_preference_vector over one history *)

MaxEvents == 2

\* product ids of the events; 0 stands for an event without product_id
PreferenceProducts == 0..(2 ^ (FloatBits - 1))
BehaviorTypes == {"REGISTER", "LIKE", "like", "SEARCH", "VIEW", "SHARE"}

\* the products that occur in histories of more than one event
PairedProducts == {0, 1, 4, 2 ^ (FloatBits - 1)}

PreferenceHistories ==
    {<<>>}
    \cup {<<Event(p, t)>> : p \in PreferenceProducts, t \in BehaviorTypes}
    \cup UNION {[1..k -> {Event(p, t) : p \in PairedProducts, t \in BehaviorTypes}] :
                   k \in 2..MaxEvents}

InitPreference ==
    \E b \in PreferenceHistories, a \in BOOLEAN :
        \E g \in [DOMAIN b -> {"found", "none", "raise"}] :
            InitPure({[kind |-> "preference_call", behavior_data |-> b,
                       avail |-> a, gets |-> g]})

PreferenceFlow ==
    /\ last.kind = "preference_call"
    /\ last' = [kind |-> "preference_flow",
                behavior_data |-> last.behavior_data,
                avail |-> last.avail,
                gets |-> last.gets,
                ret |-> generate_user_preference_vector(
                            last.behavior_data, last.avail, last.gets)]
    /\ PureFrame

SpecPreference == InitPreference /\ [][PreferenceFlow]_vars

------------------------------------------------------------------------------
(* Claims about the preference vector *)

\* the weights as documented: REGISTER 5, LIKE 3, SEARCH 2, VIEW 1, any
\* other type 1, in any letter case
ClaimedWeight(behavior_type) ==
    IF behavior_type \in {"REGISTER", "Register"} THEN 5
    ELSE IF behavior_type \in {"LIKE", "like"} THEN 3
    ELSE IF behavior_type = "SEARCH" THEN 2
    ELSE 1

\* the events of the recorded call whose lookup gave a stored embedding
Contributing ==
    {i \in DOMAIN last.behavior_data :
        last.avail /\ last.behavior_data[i].product_id # 0
                   /\ last.gets[i] = "found"}

RECURSIVE ExactSums(_)
ExactSums(I) ==
    IF I = {} THEN [sum |-> 0, total |-> 0]
    ELSE LET i == CHOOSE j \in I : TRUE
             rest == ExactSums(I \ {i})
             w == ClaimedWeight(last.behavior_data[i].behavior_type)
         IN  [sum |-> rest.sum + w * Embedding(last.behavior_data[i].product_id),
              total |-> rest.total + w]

\* None exactly when nothing contributed; otherwise the weighted mean of the
\* contributing embeddings, up to one rounding per product, sum and quotient
WeightedMean ==
    /\ (last.ret = None) <=> (Contributing = {})
    /\ last.ret # None =>
          LET e == ExactSums(Contributing)
              n == Cardinality(Contributing)
              diff == last.ret[1] * e.total - e.sum
          IN  (IF diff >= 0 THEN diff ELSE 0 - diff) * (2 ^ FloatBits)
                  <= (n + 1) * e.sum

SingleEvent == Len(last.behavior_data) = 1 /\ Contributing = {1}

\* C15 as stated: the vector is None exactly when no event contributed a
\* stored embedding, otherwise the weighted mean over the contributing
\* events; a single-event history yields exactly that event's embedding,
\* whatever the behaviour type.
C15_PreferenceVector_Original ==
    last.kind = "preference_flow" =>
        /\ WeightedMean
        /\ SingleEvent =>
              last.ret[1] = Embedding(last.behavior_data[1].product_id)

\* C15 amended: as above, but a single-event history yields exactly the
\* event's embedding only when the weight is 1 or 2 (VIEW, SEARCH, unknown
\* types) or the embedding leaves three significant bits unused (as
\* single-precision values do in double arithmetic); otherwise the product
\* by the weight 3 or 5 is rounded before the division and the result may
\* differ from the embedding by one unit in the last place.
C15_PreferenceVector ==
    last.kind = "preference_flow" =>
        /\ WeightedMean
        /\ SingleEvent =>
              LET embedding == Embedding(last.behavior_data[1].product_id)
                  w == ClaimedWeight(last.behavior_data[1].behavior_type)
                  diff == last.ret[1] - embedding
              IN  /\ (w \in {1, 2} \/ embedding % 16 = 0) => diff = 0
                  /\ diff \in {0 - 2, 0, 2}

\* two events with different weights contributed although the lookup of one
\* of them was lower-case, and the mean lies strictly between the embeddings
C15_Witness ==
    /\ last.kind = "preference_flow"
    /\ Len(last.behavior_data) = 2 /\ Contributing = {1, 2}
    /\ last.behavior_data[1].behavior_type = "like"
    /\ last.behavior_data[2].behavior_type = "VIEW"
    /\ last.ret # None
    /\ last.ret[1] > Embedding(last.behavior_data[2].product_id)
    /\ last.ret[1] < Embedding(last.behavior_data[1].product_id)

------------------------------------------------------------------------------
(* SpecAnalyze: analyze_user_behavior_patterns over one behaviour list *)

MaxBehaviors == 4

InitAnalyze ==
    \E k \in 0..MaxBehaviors :
        \E b \in [1..k -> {Event(1, t) : t \in BehaviorTypes}] :
            InitPure({[kind |-> "analyze_call", behavior_data |-> b]})

AnalyzeFlow ==
    /\ last.kind = "analyze_call"
    /\ last' = [kind |-> "analyze_flow",
                behavior_data |-> last.behavior_data,
                ret |-> analyze_user_behavior_patterns(last.behavior_data)]
    /\ PureFrame

SpecAnalyze == InitAnalyze /\ [][AnalyzeFlow]_vars

------------------------------------------------------------------------------
(* Claims about the behaviour analysis *)

\* a behaviour type without its letter case
Fold(behavior_type) ==
    IF behavior_type = "like" THEN "LIKE"
    ELSE IF behavior_type = "Register" THEN "REGISTER"
    ELSE behavior_type

\* how often the type of event i occurs in the recorded list
CountOfEvent(i) ==
    Cardinality({j \in DOMAIN last.behavior_data :
                    Fold(last.behavior_data[j].behavior_type)
                        = Fold(last.behavior_data[i].behavior_type)})

RECURSIVE ClaimedTotal(_)
ClaimedTotal(behavior_data) ==
    IF behavior_data = <<>> THEN 0
    ELSE ClaimedWeight(Head(behavior_data).behavior_type)
         + ClaimedTotal(Tail(behavior_data))

\* C16: total_score is the sum of the weights (REGISTER 5, LIKE 3, SEARCH 2,
\* VIEW 1, others 1, whatever the letter case); with n events the engagement
\* level is very_high iff total >= 4n, high iff 3n <= total < 4n, medium iff
\* 2n <= total < 3n, low iff n <= total < 2n; most_common_behavior is a type
\* of highest count, the first met among equals; the empty list gives no
\* counts, no most common type and level 'none'.
C16_BehaviorAnalysis ==
    last.kind = "analyze_flow" =>
        LET a == last.ret
            n == Len(last.behavior_data)
            total == ClaimedTotal(last.behavior_data)
        IN  IF n = 0
            THEN /\ a.total_interactions = 0 /\ a.total_score = 0
                 /\ DOMAIN a.behavior_distribution = {}
                 /\ a.most_common_behavior = "None"
                 /\ a.engagement_level = "none"
            ELSE /\ a.total_interactions = n
                 /\ a.total_score = total
                 /\ (a.engagement_level = "very_high") <=> (total >= 4 * n)
                 /\ (a.engagement_level = "high") <=>
                        (3 * n <= total /\ total < 4 * n)
                 /\ (a.engagement_level = "medium") <=>
                        (2 * n <= total /\ total < 3 * n)
                 /\ (a.engagement_level = "low") <=> (n <= total /\ total < 2 * n)
                 /\ \E i \in 1..n :
                       /\ a.most_common_behavior
                              = Fold(last.behavior_data[i].behavior_type)
                       /\ \A j \in 1..n : CountOfEvent(j) <= CountOfEvent(i)
                       /\ \A j \in 1..(i - 1) : CountOfEvent(j) < CountOfEvent(i)
                 /\ (n = 3 /\ last.behavior_data[1].behavior_type = "REGISTER"
                           /\ last.behavior_data[2].behavior_type = "REGISTER"
                           /\ last.behavior_data[3].behavior_type = "VIEW") =>
                        /\ a.engagement_level = "high"
                        /\ a.most_common_behavior = "REGISTER"

\* two types tie at two events each, one of them written in both letter
\* cases; the one met first is reported
C16_Witness ==
    /\ last.kind = "analyze_flow"
    /\ Len(last.behavior_data) = 4
    /\ last.behavior_data[1].behavior_type = "like"
    /\ last.behavior_data[2].behavior_type = "VIEW"
    /\ last.behavior_data[3].behavior_type = "VIEW"
    /\ last.behavior_data[4].behavior_type = "LIKE"
    /\ last.ret.most_common_behavior = "LIKE"
    /\ last.ret.total_score = 8
    /\ last.ret.engagement_level = "medium"

------------------------------------------------------------------------------
(* SpecQuality: evaluate_recommendation_quality over one result list and one
   optional behaviour analysis.  A list holds k results of one score followed
   by results of another, which reaches every count and every average; below
   is the direction in which the floating-point mean is rounded. *)

MaxRecs == 10
MaxInteractions == 10

InitQuality ==
    \E n \in 0..MaxRecs, hi \in {500, 600, 700, 750, 800, 900},
       lo \in {500, 600, 700, 750, 800, 900} :
        \E k \in 0..n :
            \E a \in {None} \cup
                     {Some([engagement_level |-> e, total_interactions |-> t]) :
                          e \in {"very_high", "high", "medium", "low", "none"},
                          t \in 0..MaxInteractions} :
                \E below \in BOOLEAN :
                    InitPure({[kind |-> "quality_call",
                               recommendations |->
                                   [i \in 1..n |->
                                       Rec(i, IF i <= k THEN hi ELSE lo, "similar")],
                               user_behavior_analysis |-> a,
                               below |-> below]})

QualityFlow ==
    /\ last.kind = "quality_call"
    /\ last' = [kind |-> "quality_flow",
                recommendations |-> last.recommendations,
                user_behavior_analysis |-> last.user_behavior_analysis,
                below |-> last.below,
                ret |-> GradeQuality(last.recommendations,
                                     last.user_behavior_analysis, last.below)]
    /\ PureFrame

SpecQuality == InitQuality /\ [][QualityFlow]_vars

------------------------------------------------------------------------------
(* Claims about the quality grade *)

RECURSIVE ScoreTotal(_)
ScoreTotal(scores) ==
    IF scores = <<>> THEN 0 ELSE Head(scores) + ScoreTotal(Tail(scores))

\* the behaviour quality as the grading rules state it
ClaimedBehaviorQuality(a) ==
    IF a = None THEN "fair"
    ELSE IF a[1].engagement_level \in {"very_high", "high"}
            /\ a[1].total_interactions >= 10 THEN "excellent"
    ELSE IF a[1].engagement_level \in {"high", "medium"}
            /\ a[1].total_interactions >= 5 THEN "good"
    ELSE IF a[1].total_interactions >= 3 THEN "fair"
    ELSE "poor"

\* avgSimilarity >= x for the average the function computed
ComputedAvgAtLeast(x) ==
    LET n == Len(last.recommendations)
        total == ScoreTotal(Scores(last.recommendations))
    IN  total > x * n \/ (total = x * n /\ ~last.below)

\* C17: the grade follows the first matching rule: empty list -> poor;
\* average >= 0.8, count >= 10 and behaviour quality excellent or good ->
\* excellent; average >= 0.7, count >= 5 and behaviour quality good or fair ->
\* good; average >= 0.6 and count >= 3 -> fair; otherwise poor.  Behaviour
\* quality is 'fair' when no analysis is supplied.
C17_QualityGrade ==
    last.kind = "quality_flow" =>
        LET n == Len(last.recommendations)
            bq == ClaimedBehaviorQuality(last.user_behavior_analysis)
            excellent == ComputedAvgAtLeast(800) /\ n >= 10
                            /\ bq \in {"excellent", "good"}
            good == ComputedAvgAtLeast(700) /\ n >= 5 /\ bq \in {"good", "fair"}
            fair == ComputedAvgAtLeast(600) /\ n >= 3
        IN  /\ n = 0 => last.ret = "poor"
            /\ (n > 0 /\ excellent) => last.ret = "excellent"
            /\ (n > 0 /\ ~excellent /\ good) => last.ret = "good"
            /\ (n > 0 /\ ~excellent /\ ~good /\ fair) => last.ret = "fair"
            /\ (n > 0 /\ ~excellent /\ ~good /\ ~fair) => last.ret = "poor"

\* ten results of average 0.9 without a behaviour analysis: the first rule
\* fails on the behaviour quality alone and the second rule grades 'good'
C17_Witness ==
    /\ last.kind = "quality_flow"
    /\ Len(last.recommendations) = 10
    /\ \A i \in 1..10 : last.recommendations[i].similarity_score = 900
    /\ last.user_behavior_analysis = None
    /\ last.ret = "good"

------------------------------------------------------------------------------
(* EnhancedVectorService.calculate_nutrition_ratios.  Quantities are whole
   grams and kilocalories, ratios are hundredths of a percent.  An entry of
   nutrition_info is absent, a number (or a string that float() parses), or
   a value float() rejects. *)

NUTRITION_CALORIES == [carbohydrate |-> 4, protein |-> 4, fat |-> 9]

ZeroRatios ==
    [carbohydrate_ratio |-> 0, protein_ratio |-> 0, fat_ratio |-> 0,
     total_calories |-> 0]

\* a lookup whose default for an absent entry is 1
FloatDefaultOne(v) == IF v.tag = "num" THEN v.val ELSE 1

\* float(nutrition_info.get(key, 0)) where it succeeds
Float(v) == IF v.tag = "num" THEN v.val ELSE 0

\* max(0, x)
ClampNegative(x) == Max(0, x)

\* round(cal / scale * 100, 2) in hundredths; a value halfway between two
\* hundredths goes where the binary fraction closest to it lies, which up
\* stands for
Round2(cal, scale, up) ==
    LET n == 10000 * cal
        q == n \div scale
        r == n % scale
    IN  IF 2 * r > scale \/ (2 * r = scale /\ up) THEN q + 1 ELSE q

calculate_nutrition_ratios(nutrition_info, up) ==
    IF \A k \in DOMAIN nutrition_info : nutrition_info[k].tag = "absent"
    THEN ZeroRatios
    ELSE IF \E k \in DOMAIN nutrition_info : nutrition_info[k].tag = "invalid"
    THEN ZeroRatios
    ELSE LET carbohydrate == ClampNegative(Float(nutrition_info.carbohydrate))
             protein == ClampNegative(Float(nutrition_info.protein))
             fat == ClampNegative(Float(nutrition_info.fat))
             energy == ClampNegative(Float(nutrition_info.energy))
             carb_calories == carbohydrate * NUTRITION_CALORIES.carbohydrate
             protein_calories == protein * NUTRITION_CALORIES.protein
             fat_calories == fat * NUTRITION_CALORIES.fat
             calculated_calories == carb_calories + protein_calories + fat_calories
             total_calories == IF energy = 0 THEN calculated_calories ELSE energy
         IN  IF total_calories = 0 THEN ZeroRatios
             ELSE LET \* total_ratio > 100 exactly when the contributions
                      \* exceed the calories they are divided by
                      scale == IF calculated_calories > total_calories
                               THEN calculated_calories ELSE total_calories
                  IN  [carbohydrate_ratio |->
                           Round2(carb_calories, scale, up.carbohydrate),
                       protein_ratio |-> Round2(protein_calories, scale, up.protein),
                       fat_ratio |-> Round2(fat_calories, scale, up.fat),
                       total_calories |-> total_calories]

------------------------------------------------------------------------------
(* SpecNutrition: calculate_nutrition_ratios over one nutrition_info *)

MaxGrams == 3
MaxEnergy == 60

NutritionValues(max) ==
    {[tag |-> "absent", val |-> 0], [tag |-> "invalid", val |-> 0]}
        \cup {[tag |-> "num", val |-> v] : v \in (-1)..max}

InitNutrition ==
    \E c \in NutritionValues(MaxGrams), p \in NutritionValues(MaxGrams),
       f \in NutritionValues(MaxGrams), e \in NutritionValues(MaxEnergy) :
        \E up \in [{"carbohydrate", "protein", "fat"} -> BOOLEAN] :
            InitPure({[kind |-> "nutrition_call",
                       nutrition_info |-> [carbohydrate |-> c, protein |-> p,
                                           fat |-> f, energy |-> e],
                       up |-> up]})

NutritionFlow ==
    /\ last.kind = "nutrition_call"
    /\ last' = [kind |-> "nutrition_flow",
                nutrition_info |-> last.nutrition_info,
                up |-> last.up,
                ret |-> calculate_nutrition_ratios(last.nutrition_info, last.up)]
    /\ PureFrame

SpecNutrition == InitNutrition /\ [][NutritionFlow]_vars

------------------------------------------------------------------------------
(* Claims about the nutrition ratios *)

\* C18: the three ratios returned (after rescaling and rounding to two
\* decimals) each lie in [0, 100] and add up to at most 100.0001, that is to
\* at most 10000 hundredths.
C18_RatiosBounded ==
    last.kind = "nutrition_flow" =>
        /\ last.ret.carbohydrate_ratio \in 0..10000
        /\ last.ret.protein_ratio \in 0..10000
        /\ last.ret.fat_ratio \in 0..10000
        /\ last.ret.carbohydrate_ratio + last.ret.protein_ratio
               + last.ret.fat_ratio <= 10000


\* a quantity as the rules state it: absent or negative counts as 0
Quantity(v) == IF v.tag = "num" /\ v.val > 0 THEN v.val ELSE 0

\* ratio is the hundredth nearest to 100 * cal / scale percent
NearestHundredth(ratio, cal, scale) ==
    /\ 2 * (ratio * scale - 10000 * cal) <= scale
    /\ 2 * (10000 * cal - ratio * scale) <= scale

------------------------------------------------------------------------------
(* EnhancedVectorService.extract_main_ingredients.  An entry of the input is
   a string (str) or another value (None, a number); the input itself is a
   list (Some) or absent (None). *)

RECURSIVE ExtractScan(_, _, _, _)
ExtractScan(ingredients, cleaned_ingredients, seen_ingredients, max_count) ==
    IF ingredients = <<>> THEN cleaned_ingredients
    ELSE LET ingredient == Head(ingredients)
             rest == Tail(ingredients)
             cleaned == Strip(ingredient.val)
         IN  IF ~ingredient.str \/ ingredient.val = "" \/ cleaned = ""
                   \/ Lower(cleaned) \in seen_ingredients
             THEN ExtractScan(rest, cleaned_ingredients, seen_ingredients, max_count)
             ELSE LET appended == Append(cleaned_ingredients, cleaned)
                  IN  IF Len(appended) >= max_count THEN appended
                      ELSE ExtractScan(rest, appended,
                                       seen_ingredients \cup {Lower(cleaned)},
                                       max_count)

extract_main_ingredients(ingredients, max_count) ==
    IF ingredients = None \/ ingredients[1] = <<>> THEN <<>>
    ELSE ExtractScan(ingredients[1], <<>>, {}, max_count)

------------------------------------------------------------------------------
(* SpecIngredients: extract_main_ingredients over one input and max_count *)

MaxIngredients == 4
MaxCount == 3

IngredientEntries ==
    {[str |-> TRUE, val |-> s] :
        s \in {" Sugar ", "Sugar", "sugar", "SALT", "salt", "egg", "  ", ""}}
        \cup {[str |-> FALSE, val |-> "None"], [str |-> FALSE, val |-> "3"]}

InitIngredients ==
    \E max_count \in 0..MaxCount :
        \/ InitPure({[kind |-> "ingredients_call", ingredients |-> None,
                      max_count |-> max_count]})
        \/ \E n \in 0..MaxIngredients :
               \E l \in [1..n -> IngredientEntries] :
                   InitPure({[kind |-> "ingredients_call", ingredients |-> Some(l),
                              max_count |-> max_count]})

IngredientsFlow ==
    /\ last.kind = "ingredients_call"
    /\ last' = [kind |-> "ingredients_flow",
                ingredients |-> last.ingredients,
                max_count |-> last.max_count,
                ret |-> extract_main_ingredients(last.ingredients, last.max_count)]
    /\ PureFrame

SpecIngredients == InitIngredients /\ [][IngredientsFlow]_vars

------------------------------------------------------------------------------
(* Claims about the main ingredients *)

\* entry i of the input is a string with something left after trimming
Usable(input, i) ==
    input[i].str /\ Strip(input[i].val) # ""

\* entry i is usable and the first of its spelling, ignoring case
FirstSeen(input, i) ==
    /\ Usable(input, i)
    /\ \A k \in 1..(i - 1) :
           Usable(input, k) =>
               Lower(Strip(input[k].val)) # Lower(Strip(input[i].val))

\* the items are trimmed first-seen spellings of input entries, in input
\* order, no two equal ignoring case
ExtractedInOrder(input, items) ==
    /\ \A i, j \in DOMAIN items : i # j => Lower(items[i]) # Lower(items[j])
    /\ \E f \in [DOMAIN items -> DOMAIN input] :
           /\ \A j \in DOMAIN items :
                  FirstSeen(input, f[j]) /\ items[j] = Strip(input[f[j]].val)
           /\ \A i, j \in DOMAIN items : i < j => f[i] < f[j]

\* C20: for every input and every non-negative max_count the result has at
\* most max_count items, no two equal ignoring case, each the trimmed
\* first-seen spelling of an input entry, in input order; empty,
\* whitespace-only and non-string entries are skipped; an empty or absent
\* input gives the empty list.
C20_MainIngredients ==
    last.kind = "ingredients_flow" =>
        IF last.ingredients = None \/ last.ingredients = Some(<<>>)
        THEN last.ret = <<>>
        ELSE /\ Len(last.ret) <= last.max_count
             /\ ExtractedInOrder(last.ingredients[1], last.ret)

------------------------------------------------------------------------------
(* Claims about the range of the scores *)

\* C21: every similarity_score in a recommendation returned by the
\* product-based flow, the user-based flow or either fallback lies in [0, 1]
\* (0..1000 thousandths), whatever distance the store returns.
C21_ScoresInUnitInterval ==
    Handled =>
        /\ \A i \in DOMAIN last.svc.ret :
               last.svc.ret[i].similarity_score \in 0..1000
        /\ \A i \in DOMAIN last.svc.fbRet :
               last.svc.fbRet[i].similarity_score \in 0..1000
        /\ \A i \in DOMAIN last.resp.popRet :
               last.resp.popRet[i].similarity_score \in 0..1000

------------------------------------------------------------------------------
(* SpecBatch: VectorSearchOptimizer.batch_vector_operations.  The items are
   1..n, the operation returns twice its item or raises on the items in
   fails.  last holds the call (i is the loop variable, results the list
   built so far, ran the items in the order their operations finished), thr
   the tasks that asyncio.gather is waiting for: the event loop finishes the
   pending operations of one batch in any order. *)

MaxItems == 5
MaxBatchSize == 3

\* the results of a batch that would be kept up to its first exception only
BatchResultsUntilError(tasks) ==
    LET bad == {j \in DOMAIN tasks : tasks[j].state = "raised"}
        stop == IF bad = {} THEN Len(tasks) + 1
                ELSE CHOOSE j \in bad : \A k \in bad : j <= k
    IN  [j \in 1..(stop - 1) |-> tasks[j].result]

\* for j, result in enumerate(batch_results): keep what is no Exception
BatchResults(tasks) ==
    LET kept == SelectSeq(tasks, LAMBDA t : t.state = "returned")
    IN  [j \in DOMAIN kept |-> kept[j].result]

InitBatch ==
    /\ \E n \in 0..MaxItems, batch_size \in 1..MaxBatchSize :
       \E fails \in SUBSET (1..n) :
           last = [kind |-> "batch", pc |-> "loop", items |-> [x \in 1..n |-> x],
                   fails |-> fails, batch_size |-> batch_size, i |-> 0,
                   results |-> <<>>, ran |-> <<>>, ret |-> <<>>]
    /\ thr = <<>>
    /\ cache = <<>> /\ max_size = SharedSize /\ ttl_seconds = MaxTtl /\ now = 0
    /\ cop = NoCop /\ store = NoStore /\ wr = NoWr /\ rd = NoRd

\* batch = items[i:i + batch_size]; asyncio.gather(*[operation(item) ...])
BatchGather ==
    /\ last.kind = "batch" /\ last.pc = "loop" /\ last.i < Len(last.items)
    /\ thr' = [j \in 1..Min(last.batch_size, Len(last.items) - last.i) |->
                  [item |-> last.items[last.i + j], state |-> "pending",
                   result |-> 0]]
    /\ last' = [last EXCEPT !.pc = "gather"]
    /\ UNCHANGED <<cache, max_size, ttl_seconds, now, cop, store, wr, rd>>

\* one pending operation of the batch returns or raises
OperationRun(j) ==
    /\ last.kind = "batch" /\ last.pc = "gather"
    /\ j \in DOMAIN thr /\ thr[j].state = "pending"
    /\ thr' = [thr EXCEPT ![j] =
                  IF thr[j].item \in last.fails
                  THEN [@ EXCEPT !.state = "raised"]
                  ELSE [@ EXCEPT !.state = "returned", !.result = 2 * thr[j].item]]
    /\ last' = [last EXCEPT !.ran = Append(@, thr[j].item)]
    /\ UNCHANGED <<cache, max_size, ttl_seconds, now, cop, store, wr, rd>>

\* gather is complete: the results are filtered and the loop goes on
BatchCollect ==
    /\ last.kind = "batch" /\ last.pc = "gather"
    /\ \A j \in DOMAIN thr : thr[j].state # "pending"
    /\ last' = [last EXCEPT !.pc = "loop",
                            !.results = @ \o BatchResults(thr),
                            !.i = @ + last.batch_size]
    /\ thr' = <<>>
    /\ UNCHANGED <<cache, max_size, ttl_seconds, now, cop, store, wr, rd>>

\* return results
BatchReturn ==
    /\ last.kind = "batch" /\ last.pc = "loop" /\ last.i >= Len(last.items)
    /\ last' = [last EXCEPT !.pc = "done", !.ret = last.results]
    /\ UNCHANGED <<cache, max_size, ttl_seconds, now, cop, thr, store, wr, rd>>

NextBatch ==
    \/ BatchGather
    \/ \E j \in 1..MaxBatchSize : OperationRun(j)
    \/ BatchCollect
    \/ BatchReturn

SpecBatch == InitBatch /\ [][NextBatch]_vars

------------------------------------------------------------------------------
(* Claims about batch_vector_operations *)

\* the doubled items of seq that are not in fails, in the order of seq
RECURSIVE Survivors(_, _)
Survivors(seq, fails) ==
    IF seq = <<>> THEN <<>>
    ELSE (IF Head(seq) \in fails THEN <<>> ELSE <<2 * Head(seq)>>)
         \o Survivors(Tail(seq), fails)

\* C22: the operation is applied to every item, in batches of batch_size; an
\* operation that fails stops no other one, of its own or of a later batch;
\* the list returned holds exactly the results of the items whose operation
\* did not fail, in the order of the items.
C22_BatchIsolatesFailures ==
    last.kind = "batch" =>
        /\ Len(thr) <= last.batch_size
        /\ \A j \in DOMAIN thr : thr[j].item = last.items[last.i + j]
        /\ last.pc = "gather" =>
               Len(thr) = Min(last.batch_size, Len(last.items) - last.i)
        /\ \A j, k \in DOMAIN last.ran : j # k => last.ran[j] # last.ran[k]
        /\ last.pc = "done" =>
               /\ {last.ran[j] : j \in DOMAIN last.ran}
                      = {last.items[j] : j \in DOMAIN last.items}
               /\ last.ret = Survivors(last.items, last.fails)

\* the first operation of the first batch failed after its neighbour had
\* finished, and the rest of that batch and the later batches were kept
C22_Witness ==
    /\ last.kind = "batch" /\ last.pc = "done"
    /\ Len(last.items) = 5 /\ last.batch_size = 2
    /\ last.fails = {1, 4}
    /\ last.ran = <<2, 1, 4, 3, 5>>
    /\ last.ret = <<4, 6, 10>>

------------------------------------------------------------------------------
(* SpecReason: generate_recommendation_reason of the product-based service
   over one triple of scores, together with the score and the reason that
   get_recommendations derives from the same two similarities.  The scores
   are the multiples of 0.05. *)

ScoreSteps == 20

InitReason ==
    \E n \in 0..ScoreSteps, i \in 0..ScoreSteps, f \in 0..ScoreSteps :
        InitPure({[kind |-> "reason_call", nutrition_similarity |-> 50 * n,
                   ingredient_similarity |-> 50 * i, final_score |-> 500 * f]})

ReasonFlow ==
    /\ last.kind = "reason_call"
    /\ last' =
           LET composite == calculate_final_score(last.nutrition_similarity,
                                                  last.ingredient_similarity)
           IN  [kind |-> "reason_flow",
                nutrition_similarity |-> last.nutrition_similarity,
                ingredient_similarity |-> last.ingredient_similarity,
                final_score |-> last.final_score,
                ret |-> ProductBased_generate_recommendation_reason(
                            last.nutrition_similarity,
                            last.ingredient_similarity, last.final_score),
                composite |-> composite,
                composite_reason |->
                    ProductBased_generate_recommendation_reason(
                        last.nutrition_similarity, last.ingredient_similarity,
                        composite)]
    /\ PureFrame

SpecReason == InitReason /\ [][ReasonFlow]_vars

------------------------------------------------------------------------------
(* Claims about the recommendation reason *)

\* the rows of the reason table, from the highest band of the final score
\* down: each is a condition and the reason it gives
ReasonRows(n, i, f) ==
    <<[when |-> f >= 9000 /\ n >= 800 /\ i >= 800,
       reason |-> "nutrition and ingredients very similar"],
      [when |-> f >= 9000 /\ n >= 800, reason |-> "nutrition ratio very similar"],
      [when |-> f >= 9000 /\ i >= 800, reason |-> "main ingredients very similar"],
      [when |-> f >= 9000, reason |-> "very similar product"],
      [when |-> f >= 8000 /\ n > i, reason |-> "similar nutrition"],
      [when |-> f >= 8000, reason |-> "similar main ingredients"],
      [when |-> f >= 7000 /\ n >= 700, reason |-> "similar nutrition ratio"],
      [when |-> f >= 7000 /\ i >= 700, reason |-> "similar ingredients"],
      [when |-> f >= 7000, reason |-> "related product"],
      [when |-> f >= 6000, reason |-> "product with similar traits"],
      [when |-> TRUE, reason |-> "related product"]>>

FirstMatch(rows) ==
    rows[CHOOSE k \in DOMAIN rows :
             rows[k].when /\ \A j \in 1..(k - 1) : ~rows[j].when].reason

\* C23: generate_recommendation_reason returns, for every triple of scores,
\* the reason of the first matching row of the table read from the highest
\* band of the final score down.
C23_ReasonFirstMatch ==
    last.kind = "reason_flow" =>
        last.ret = FirstMatch(ReasonRows(last.nutrition_similarity,
                                         last.ingredient_similarity,
                                         last.final_score))

\* final score 0.85 with equal similarities: the nutrition row needs a
\* strictly larger nutrition similarity, so the ingredient row is taken
C23_Witness ==
    /\ last.kind = "reason_flow"
    /\ last.final_score = 8500
    /\ last.nutrition_similarity = 850 /\ last.ingredient_similarity = 850
    /\ last.ret = "similar main ingredients"

------------------------------------------------------------------------------
(* Claims about the label of a product-based response *)

\* C24: a product-based response is labelled 'product-based' only if every
\* item it carries came from the primary similarity search for the reference
\* product (directly or through the cache); items sampled by a fallback
\* appear only in responses labelled 'fallback'.
C24_LabelMatchesOrigin ==
    (last.kind = "product" /\ last.resp.status = 200) =>
        /\ last.resp.recommendation_type = "product-based" =>
               /\ last.svc.fbCalls = <<>>
               /\ last.resp.recommendations = ToResults(last.svc.primary)
        /\ (last.svc.fbRet # <<>> \/ last.resp.popRet # <<>>) =>
               last.resp.recommendation_type = "fallback"

------------------------------------------------------------------------------
(* Claims about what the orchestrator writes to the cache *)

\* a step taken by a product-based request
ProductStep == now' = now /\ last'.kind = "product"

\* the request of this step ended in fallback or met an exception
EndedInFallback == last'.svc.fbCalls # <<>> \/ last'.svc.excs # {}

\* every entry after the step was there before it, or is the non-empty list
\* the similarity search of this request returned, stored under the
\* request's own signature at the time of the request
OnlyPrimaryWritten ==
    \A i \in DOMAIN cache' :
        \/ \E j \in DOMAIN cache : cache[j] = cache'[i]
        \/ /\ last'.svc.searched /\ last'.svc.primary # <<>>
           /\ cache'[i].value = last'.svc.primary
           /\ cache'[i].kw = ProductKwargs(last'.id, last'.limit)
           /\ cache'[i].key = _generate_key(cache'[i].kw)
           /\ cache'[i].ts = now

\* the entry that the lookup of this request finds expired, if there is one
OwnExpired ==
    {j \in DOMAIN cache :
        /\ cache[j].kw = ProductKwargs(last'.id, last'.limit)
        /\ now - cache[j].ts >= ttl_seconds}

\* C25 as stated: the orchestrator writes to the cache only a non-empty list
\* returned by the primary similarity search, under the request's own
\* signature, and a request that ended in fallback or in an exception leaves
\* the cache unchanged.
C25_CacheWrites_Original ==
    [][ProductStep =>
          /\ OnlyPrimaryWritten
          /\ EndedInFallback => cache' = cache
      ]_vars

\* C25 amended: the orchestrator writes to the cache only a non-empty list
\* returned by the primary similarity search, under the request's own
\* signature; a request that ended in fallback or in an exception adds and
\* replaces no entry: it leaves the cache as it was, or without the expired
\* entry of its own signature, which its lookup deletes.
C25_CacheWrites ==
    [][ProductStep =>
          /\ OnlyPrimaryWritten
          /\ EndedInFallback =>
                \/ cache' = cache
                \/ \E j \in OwnExpired : cache' = RemoveAt(cache, j)
      ]_vars

\* a request ended in fallback while the cache held the primary result of
\* an earlier request
C25_Witness ==
    /\ last.kind = "product"
    /\ last.svc.fbCalls # <<>> /\ last.svc.fbRet # <<>>
    /\ cache # <<>>
    /\ \A i \in DOMAIN cache :
           cache[i].value # <<>> /\ cache[i].value # last.svc.fbRet

------------------------------------------------------------------------------
(* Claims about a failed store_product_with_id *)

\* C26: when store_product_with_id returns False (store unavailable, vector
\* generation failed or the insert failed) the record stored under the
\* product id before the call is unchanged; the product is never left
\* missing.
C26_FailedStoreKeepsRecord ==
    (wr.pc = "done" /\ wr.op = "store_product_with_id" /\ ~wr.ret) =>
        /\ SelectSeq(store, LAMBDA r : r.id = wr.id)
               = SelectSeq(wr.before, LAMBDA r : r.id = wr.id)
        /\ StoreIndex(wr.before, wr.id) # 0 => StoreIndex(store, wr.id) # 0

------------------------------------------------------------------------------
(* SpecModel: threads that obtain ModelCache() and call get_model or
   clear_cache on it.  last holds the class: instance is _instance (0 for
   None, else the number of the object), created counts the objects made,
   model is _model (0 for None, else the number of the loaded model), loads
   counts the models constructed.  A `with cls._lock` block is one step: the
   lock admits one thread at a time and the block makes a single write.  The
   tests and the final read of get_model happen outside the lock. *)

NThreads == 3

InitModel ==
    /\ last = [kind |-> "model_cache", instance |-> 0, created |-> 0,
               model |-> 0, loads |-> 0, failed |-> FALSE, cleared |-> FALSE]
    /\ thr \in [1..NThreads ->
                  {[pc |-> "new", op |-> op, obj |-> 0, ret |-> 0] :
                      op \in {"get_model", "clear_cache"}}]
    /\ cache = <<>> /\ max_size = SharedSize /\ ttl_seconds = MaxTtl /\ now = 0
    /\ cop = NoCop /\ store = NoStore /\ wr = NoWr /\ rd = NoRd

\* __new__: if cls._instance is None (outside the lock)
NewCheck(t) ==
    /\ last.kind = "model_cache" /\ thr[t].pc = "new"
    /\ thr' = [thr EXCEPT ![t].pc =
                  IF last.instance = 0 THEN "new_locked" ELSE "new_return"]
    /\ UNCHANGED <<cache, max_size, ttl_seconds, now, cop, last, store, wr, rd>>

\* __new__: with cls._lock: if cls._instance is None: cls._instance = ...
NewLocked(t) ==
    /\ last.kind = "model_cache" /\ thr[t].pc = "new_locked"
    /\ last' = IF last.instance = 0
               THEN [last EXCEPT !.instance = last.created + 1,
                                 !.created = last.created + 1]
               ELSE last
    /\ thr' = [thr EXCEPT ![t].pc = "new_return"]
    /\ UNCHANGED <<cache, max_size, ttl_seconds, now, cop, store, wr, rd>>

\* __new__: return cls._instance; the method is entered on that object
NewReturn(t) ==
    /\ last.kind = "model_cache" /\ thr[t].pc = "new_return"
    /\ thr' = [thr EXCEPT ![t].obj = last.instance,
                          ![t].pc = IF thr[t].op = "get_model"
                                    THEN "check" ELSE "clear_locked"]
    /\ UNCHANGED <<cache, max_size, ttl_seconds, now, cop, last, store, wr, rd>>

\* get_model: if self._model is None (outside the lock)
GetCheck(t) ==
    /\ last.kind = "model_cache" /\ thr[t].pc = "check"
    /\ thr' = [thr EXCEPT ![t].pc =
                  IF last.model = 0 THEN "get_locked" ELSE "return"]
    /\ UNCHANGED <<cache, max_size, ttl_seconds, now, cop, last, store, wr, rd>>

\* get_model: with self._lock: if self._model is None: load the model; a
\* loading that raises returns None from inside the block
GetLocked(t, ok) ==
    /\ last.kind = "model_cache" /\ thr[t].pc = "get_locked"
    /\ IF last.model # 0
       THEN /\ thr' = [thr EXCEPT ![t].pc = "return"]
            /\ UNCHANGED last
       ELSE IF ok
       THEN /\ last' = [last EXCEPT !.model = last.loads + 1,
                                    !.loads = last.loads + 1]
            /\ thr' = [thr EXCEPT ![t].pc = "return"]
       ELSE /\ last' = [last EXCEPT !.failed = TRUE]
            /\ thr' = [thr EXCEPT ![t].pc = "done", ![t].ret = 0]
    /\ UNCHANGED <<cache, max_size, ttl_seconds, now, cop, store, wr, rd>>

\* get_model: return self._model (outside the lock)
GetReturn(t) ==
    /\ last.kind = "model_cache" /\ thr[t].pc = "return"
    /\ thr' = [thr EXCEPT ![t].pc = "done", ![t].ret = last.model]
    /\ UNCHANGED <<cache, max_size, ttl_seconds, now, cop, last, store, wr, rd>>

\* clear_cache: with self._lock: self._model = None
ClearLocked(t) ==
    /\ last.kind = "model_cache" /\ thr[t].pc = "clear_locked"
    /\ last' = [last EXCEPT !.model = 0, !.cleared = TRUE]
    /\ thr' = [thr EXCEPT ![t].pc = "done"]
    /\ UNCHANGED <<cache, max_size, ttl_seconds, now, cop, store, wr, rd>>

NextModel ==
    \E t \in 1..NThreads :
        \/ NewCheck(t)
        \/ NewLocked(t)
        \/ NewReturn(t)
        \/ GetCheck(t)
        \/ \E ok \in BOOLEAN : GetLocked(t, ok)
        \/ GetReturn(t)
        \/ ClearLocked(t)

SpecModel == InitModel /\ [][NextModel]_vars

------------------------------------------------------------------------------
(* Claims about the model cache *)

\* the get_model calls that have returned
Returned ==
    {t \in 1..NThreads : thr[t].op = "get_model" /\ thr[t].pc = "done"}

\* C27: under any interleaving of get_model calls the model is constructed
\* at most once as long as loading succeeds, every caller receives that
\* same instance, and ModelCache() always yields the same object; a
\* get_model call that overlaps clear_cache returns the old instance or a
\* freshly loaded one.
C27_ModelLoadedOnce ==
    last.kind = "model_cache" =>
        /\ last.created <= 1
        /\ \A t \in 1..NThreads : thr[t].obj \in {0, last.instance}
        /\ (~last.failed /\ ~last.cleared) =>
               /\ last.loads <= 1
               /\ \A t \in Returned : thr[t].ret = 1
        /\ ~last.failed => \A t \in Returned : thr[t].ret \in 1..last.loads

------------------------------------------------------------------------------
(* SpecRoundTrip: the main ingredients of one product written by
   store_product_with_id and read back by get_product_by_id.  The metadata
   value is a string, modelled as the sequence of its characters. *)

MaxListed == 3

\* the characters of the ingredient names used here
Chars(s) ==
    CASE s = "egg" -> <<"e", "g", "g">>
      [] s = "Sugar" -> <<"S", "u", "g", "a", "r">>
      [] s = "salt" -> <<"s", "a", "l", "t">>
      [] s = "soy, wheat" -> <<"s", "o", "y", ",", " ", "w", "h", "e", "a", "t">>
      [] s = "a,b" -> <<"a", ",", "b">>
      [] OTHER -> <<>>

RECURSIVE JoinIngredients(_)
\* ', '.join(main_ingredients)
JoinIngredients(main_ingredients) ==
    IF main_ingredients = <<>> THEN <<>>
    ELSE IF Len(main_ingredients) = 1 THEN Chars(main_ingredients[1])
    ELSE Chars(main_ingredients[1]) \o <<",", " ">>
             \o JoinIngredients(Tail(main_ingredients))

RECURSIVE SplitIngredients(_, _)
\* s.split(', '), cur being the item read so far
SplitIngredients(s, cur) ==
    IF s = <<>> THEN <<cur>>
    ELSE IF Len(s) >= 2 /\ s[1] = "," /\ s[2] = " "
    THEN <<cur>> \o SplitIngredients(SubSeq(s, 3, Len(s)), <<>>)
    ELSE SplitIngredients(Tail(s), Append(cur, Head(s)))

\* store_product_with_id: the metadata value "main_ingredients"
StoredMainIngredients(ingredients) ==
    LET main_ingredients ==
            IF ingredients = None \/ ingredients[1] = <<>> THEN <<>>
            ELSE extract_main_ingredients(ingredients, 5)
    IN  IF main_ingredients # <<>> THEN JoinIngredients(main_ingredients) ELSE <<>>

\* get_product_by_id: the field 'main_ingredients' of the result
ReadMainIngredients(stored) ==
    IF stored # <<>> THEN SplitIngredients(stored, <<>>) ELSE <<>>

InitRoundTrip ==
    \/ InitPure({[kind |-> "roundtrip_call", ingredients |-> None]})
    \/ \E n \in 0..MaxListed :
           \E l \in [1..n -> {[str |-> TRUE, val |-> s] :
                        s \in {"egg", " Sugar ", "salt", "soy, wheat", "a,b", ""}}] :
               InitPure({[kind |-> "roundtrip_call", ingredients |-> Some(l)]})

RoundTripFlow ==
    /\ last.kind = "roundtrip_call"
    /\ last' = [kind |-> "roundtrip_flow",
                ingredients |-> last.ingredients,
                stored |-> StoredMainIngredients(last.ingredients),
                ret |-> ReadMainIngredients(
                            StoredMainIngredients(last.ingredients))]
    /\ PureFrame

SpecRoundTrip == InitRoundTrip /\ [][RoundTripFlow]_vars

------------------------------------------------------------------------------
(* Claims about the round trip of main ingredients *)

\* C28: the main_ingredients read back for a stored product equal, item
\* for item, extract_main_ingredients(ingredients); a product stored with
\* no ingredients reads back as the empty list.
C28_IngredientsRoundTrip ==
    last.kind = "roundtrip_flow" =>
        LET expected == IF last.ingredients = None THEN <<>>
                        ELSE extract_main_ingredients(last.ingredients, 5)
        IN  /\ Len(last.ret) = Len(expected)
            /\ \A k \in 1..Len(expected) : last.ret[k] = Chars(expected[k])

------------------------------------------------------------------------------
(* Claims about the engagement level of a non-empty history *)

\* C29: for a non-empty behaviour history the engagement level is one of
\* low, medium, high, very_high and never 'none', every event (recognised
\* or not) weighing at least 1 so that the total score is at least the
\* number of events; 'none' is returned only for the empty history.
C29_EngagedWhenNonEmpty ==
    last.kind = "analyze_flow" =>
        /\ last.behavior_data # <<>> =>
               /\ last.ret.engagement_level
                      \in {"low", "medium", "high", "very_high"}
               /\ last.ret.total_score >= Len(last.behavior_data)
        /\ last.ret.engagement_level = "none" <=> last.behavior_data = <<>>

\* a history of unrecognised events only has been graded low
C29_Witness ==
    /\ last.kind = "analyze_flow"
    /\ last.behavior_data = <<Event(1, "SHARE"), Event(1, "SHARE")>>
    /\ last.ret.engagement_level = "low"
    /\ last.ret.total_score = 2

------------------------------------------------------------------------------
(* Claims about the reason rows reachable from get_recommendations *)

\* C30: with the default weights and both similarities in [0, 1], a
\* composite score of at least 0.9 implies a nutrition similarity of at
\* least 0.8, so the reason computed from the composite score is never
\* 'main ingredients very similar' nor 'very similar product'.
C30_TopBandNeedsNutrition ==
    last.kind = "reason_flow" =>
        /\ last.composite >= 9000 => last.nutrition_similarity >= 800
        /\ last.composite_reason
               \notin {"main ingredients very similar", "very similar product"}

\* a composite score of exactly 0.9 with a low ingredient similarity
C30_Witness ==
    /\ last.kind = "reason_flow"
    /\ last.nutrition_similarity = 1000
    /\ last.ingredient_similarity = 750
    /\ last.composite = 9000
    /\ last.composite_reason = "nutrition ratio very similar"

==============================================================================
